---- MODULE Spec2Model ----
(***************************************************************************)
(* The Incredible Machine (web clone): the Run-Loop Controller (GameLoop), *)
(* the Simulation World (PhysicsEngine) and the entities they drive.       *)
(*                                                                         *)
(* Times are in hundredths of a millisecond, so that the nominal frame of  *)
(* 16.67 ms is the integer 1667 and the dt cap of 50 ms is 5000.           *)
(* A body's transform (position, angle, velocity, angular velocity) is     *)
(* abstracted to one integer in 0..MaxPos; the rigid-body solver is an     *)
(* external black box and is modelled as a nondeterministic choice of the  *)
(* new transforms of the dynamic bodies and of the contacts that start.    *)
(***************************************************************************)
EXTENDS Integers, Sequences, FiniteSets, TLC

\* ---------------------------------------------------------------- bounds
NumEntities == 2
MaxPos == 1
MaxContacts == 2
MaxRaf == 4
MaxTick == 3
MaxId == 3
MaxRecords == 2
TimeStep == 3000

\* ------------------------------------------------------ program constants
maxDt == 5000
NominalDt == 1667

STOPPED == "stopped"
RUNNING == "running"
PAUSED == "paused"
LoopState == {STOPPED, RUNNING, PAUSED}

VARIABLES
    state,          \* GameLoop._state
    rafId,          \* GameLoop._rafId: {} for null, else {handle of the last request}
    elapsed,        \* GameLoop._elapsed
    lastTimestamp,  \* GameLoop._lastTimestamp
    speed,          \* GameLoop._speed
    pending,        \* host: handles of the frame callbacks that are scheduled
    nextRafId,      \* host: the handle the next requestAnimationFrame returns
    physics,        \* PhysicsEngine: _objects, _bodyToObject, world, _snapshot, timeScale
    popped,         \* Balloon._popped, per entity
    disposed,       \* entity whose dispose() has run (its body fields are null)
    bodyPos,        \* the transform of every body
    calls,          \* the collaborator calls made by the last operation, in order
    halted,         \* pause(), reset() or dispose() returned and no play() since
    stepped,        \* sum of the dt passed to step since the last Idle->Running
    wasReset,       \* reset() returned and no Idle->Running transition since
    fresh           \* "start" / "resume": play() moved the loop to Running and no
                    \* frame has stepped since; "after-start" / "after-resume": the
                    \* last step was the first one after that play(); else "no"

loopVars == <<state, rafId, elapsed, lastTimestamp, speed, pending, nextRafId>>
worldVars == <<physics, popped, disposed, bodyPos>>
ghostVars == <<halted, stepped, wasReset, fresh>>

VARIABLES
    registry,       \* ObjectRegistry._registry: kind name -> the class registered
    made,           \* what the last create / deserialize did: thrown, or the object returned
    subject,        \* the object under serialization, <<>> when there is none
    nextId,         \* BaseObject.js: the module counter _nextId
    everMade,       \* every object constructed so far, in order of construction:
                    \* the id the constructor gave it and its _id now
    levelData,      \* the level handed to the level set-up: its fixedObjects records
    placedObjects,  \* state.placedObjects / DragDropManager._objects
    selectedObject, \* DragDropManager._selectedObject: {} for null, else {reference}
    dragging,       \* DragDropManager._dragging
    dragType,       \* DragDropManager._dragType: "null", "toolbox", "move", "rotate"
    dragObjType,    \* DragDropManager._dragObjType: {} for null, else {kind name}
    dragObject,     \* DragDropManager._dragObject: {} for null, else {reference}
    enabled         \* DragDropManager._enabled

VARIABLES
    levelCache,     \* LevelManager._levelCache: level id -> the level data cached
    currentLevel,   \* LevelManager._currentLevel: {} for null, else {level data}
    canvas,         \* the game canvas: its width and height
    twins,          \* two Worlds populated from the same record: the balloon of each
    mode,           \* main.js state.mode
    savedPlacedSnapshot, \* main.js state._savedPlacedSnapshot
    parts,          \* the game objects of a play session, with the payloads the bus carried
    edited,         \* the object under the editor's hand, with the bodies it built
    bucket,         \* a bucket, the objects that may fall in it and what the bus carried
    spring,         \* a spring: its trigger fields and what its last hook did
    gears,          \* the angular speeds of the gears of a session, in thousandths
    inventory,      \* Toolbox._inventory: kind -> the count left
    ui,             \* the page around the loop: the renderer's own loop, the overlay, the speed shown
    bus,            \* EventBus._listeners per event, in insertion order, and what the last emit did
    onBoard         \* the World's entities a session has on its board, in order of placement, and the ones it ever had

catalogVars == <<registry, made, subject, nextId, everMade>>
managerVars == <<levelCache, currentLevel>>
pageVars == <<canvas>>
twinVars == <<twins>>
modeVars == <<mode, savedPlacedSnapshot>>
contactVars == <<parts, edited>>
gadgetVars == <<bucket, spring, gears, inventory, ui, bus, onBoard>>
boardVars == <<levelData, placedObjects, selectedObject, dragging, dragType, dragObjType,
               dragObject, enabled>>
appVars == <<catalogVars, boardVars, managerVars, pageVars, twinVars, modeVars, contactVars, gadgetVars>>

vars == <<state, rafId, elapsed, lastTimestamp, speed, pending, nextRafId,
          physics, popped, disposed, bodyPos, calls, halted, stepped, wasReset, fresh,
          registry, made, subject, nextId, everMade, levelData, placedObjects, selectedObject,
          dragging, dragType, dragObjType, dragObject, enabled, levelCache, currentLevel, canvas, twins,
          mode, savedPlacedSnapshot, parts, edited,
          bucket, spring, gears, inventory, ui, bus, onBoard>>

\* ---------------------------------------------------------------- entities
Entities == 1..NumEntities

\* The kind of each entity of the universe the inputs are drawn from.
KindOf(e) ==
    CASE e % 3 = 1 -> "balloon"
      [] e % 3 = 2 -> "candle"
      [] OTHER -> "scissors"

\* The bodies an entity constructs: a candle has the wax stick and the flame
\* sensor, a balloon and scissors have one body.
constructedBodies(e) ==
    IF KindOf(e) = "candle" THEN <<10 * e + 1, 10 * e + 2>> ELSE <<10 * e + 1>>

\* Balloon.bodies is empty once the balloon has popped.
bodies(e, pop) ==
    IF KindOf(e) = "balloon" /\ pop[e] THEN <<>> ELSE constructedBodies(e)

AllBodies == UNION {{constructedBodies(e)[i] : i \in 1..Len(constructedBodies(e))} : e \in Entities}

\* Only balloons are dynamic among the kinds modelled; both candle bodies and
\* scissors are static.
isStatic(b) == KindOf(b \div 10) # "balloon"

\* The four boundary walls (floor, left, right, ceiling).
Walls == {1, 2, 3, 4}

Range(s) == {s[i] : i \in 1..Len(s)}

\* One entry of the log of the last operation: the operation invoked comes
\* first, then the calls it made to its collaborators (the World, the host's
\* frame scheduler, the render callback, the event bus), in order.
Call(op, arg) == [op |-> op, arg |-> arg]

Count(log, op) == Cardinality({i \in 1..Len(log) : log[i].op = op})

Index(log, op) == CHOOSE i \in 1..Len(log) : log[i].op = op

Min(a, b) == IF a < b THEN a ELSE b

Flag(b) == IF b THEN 1 ELSE 0

\* ------------------------------------------------------------ PhysicsEngine
\* new PhysicsEngine(width, height): no objects, an empty lookup, no snapshot,
\* and a solver world that holds the four boundary walls.
NoSnapshot == [taken |-> FALSE, entries |-> <<>>]

\* The sizes the game area may take; init() sizes the canvas to the first
\* one before it constructs the World.
InitialSize == [width |-> 800, height |-> 600]

CanvasSizes == {InitialSize, [width |-> 1024, height |-> 600], [width |-> 800, height |-> 480]}

wallThickness == 50

\* _addBoundaries: the centre, width and height of the four walls.
_addBoundaries(width, height) ==
    [floor |-> <<width \div 2, height + wallThickness \div 2, width + wallThickness * 2, wallThickness>>,
     left |-> <<-(wallThickness \div 2), height \div 2, wallThickness, height>>,
     right |-> <<width + wallThickness \div 2, height \div 2, wallThickness, height>>,
     ceiling |-> <<width \div 2, -(wallThickness \div 2), width + wallThickness * 2, wallThickness>>]

constructor ==
    [objects |-> <<>>,
     bodyToObject |-> [b \in {} |-> 0],
     world |-> Walls,
     snapshot |-> NoSnapshot,
     timeScale |-> 1,
     width |-> InitialSize.width,
     height |-> InitialSize.height,
     boundaries |-> _addBoundaries(InitialSize.width, InitialSize.height)]

\* addObject: the Set keeps insertion order and ignores an entity it holds.
addObject(p, e, pop) ==
    LET bs == Range(bodies(e, pop))
        old == p.bodyToObject
    IN [p EXCEPT
         !.objects = IF e \in Range(p.objects) THEN p.objects ELSE Append(p.objects, e),
         !.world = p.world \cup bs,
         !.bodyToObject = [b \in (DOMAIN old) \cup bs |-> IF b \in bs THEN e ELSE old[b]]]

\* removeObject: the bodies removed are the ones the entity's bodies getter
\* returns at the time of the call.
removeObject(p, e, pop) ==
    LET bs == Range(bodies(e, pop))
        old == p.bodyToObject
    IN [p EXCEPT
         !.objects = SelectSeq(p.objects, LAMBDA o : o # e),
         !.world = p.world \ bs,
         !.bodyToObject = [b \in (DOMAIN old) \ bs |-> old[b]]]

RECURSIVE removeAll(_, _, _)
removeAll(p, objs, pop) ==
    IF objs = <<>> THEN p
    ELSE removeAll(removeObject(p, Head(objs), pop), Tail(objs), pop)

\* clear: removeObject on a copy of the tracked set.
clear(p, pop) == removeAll(p, p.objects, pop)

\* BaseObject.serialize, reduced to the fields the model carries.
serialize(e) == [type |-> KindOf(e)]

\* takeSnapshot starts from an empty buffer whatever it held before.
takeSnapshot_keepsFirst(p, pop, pos) ==
    IF p.snapshot.taken THEN p
    ELSE [p EXCEPT !.snapshot =
        [taken |-> TRUE,
         entries |-> [i \in 1..Len(p.objects) |->
            LET bs == bodies(p.objects[i], pop)
            IN [serialized |-> serialize(p.objects[i]),
                bodyStates |-> [j \in 1..Len(bs) |-> [id |-> bs[j], pos |-> pos[bs[j]]]]]]]]

takeSnapshot(p, pop, pos) ==
    [p EXCEPT !.snapshot =
        [taken |-> TRUE,
         entries |-> [i \in 1..Len(p.objects) |->
            LET bs == bodies(p.objects[i], pop)
            IN [serialized |-> serialize(p.objects[i]),
                bodyStates |-> [j \in 1..Len(bs) |-> [id |-> bs[j], pos |-> pos[bs[j]]]]]]]]

\* restoreSnapshot: the i-th snapshot entry is applied to the i-th tracked
\* object; a body state is applied when that object owns a body with its id.
\* The result is the new transform of every body.
restoreSnapshot(p, pop, pos) ==
    IF ~p.snapshot.taken THEN pos
    ELSE LET snap == p.snapshot.entries
             n == Min(Len(snap), Len(p.objects))
             Hits(b) == UNION {{<<i, j>> : j \in {k \in 1..Len(snap[i].bodyStates) :
                                    /\ snap[i].bodyStates[k].id = b
                                    /\ b \in Range(bodies(p.objects[i], pop))}} : i \in 1..n}
         IN [b \in DOMAIN pos |->
                IF Hits(b) = {} THEN pos[b]
                ELSE LET h == CHOOSE h \in Hits(b) : TRUE
                     IN snap[h[1]].bodyStates[h[2]].pos]

clearSnapshot(p) == [p EXCEPT !.snapshot = NoSnapshot]

\* objectAtPoint(point): the owner of the first body of the solver's world
\* that contains the point and is in the lookup. The model keeps the world
\* as a set, so the result is the set of the objects the call may return,
\* each for some order of the bodies; {} stands for null.
objectAtPoint(p, pos, point) ==
    {p.bodyToObject[b] : b \in {c \in (p.world \ Walls) \cap DOMAIN p.bodyToObject : pos[c] = point}}

hasSnapshot(p) == p.snapshot.taken

setTimeScale(p, scale) == [p EXCEPT !.timeScale = scale]

\* Balloon.onCollision / pop: an unpopped balloon pops on scissors or a candle.
onCollision(e, other, pop) ==
    IF KindOf(e) = "balloon" /\ ~pop[e] /\ KindOf(other) \in {"scissors", "candle"}
    THEN [pop EXCEPT ![e] = TRUE]
    ELSE pop

\* The collisionStart listener: a pair is dispatched to both owners when both
\* bodies are in the lookup.
RECURSIVE collisionStart(_, _, _)
collisionStart(p, pairs, pop) ==
    IF pairs = <<>> THEN pop
    ELSE LET a == Head(pairs)[1]
             b == Head(pairs)[2]
             known == a \in DOMAIN p.bodyToObject /\ b \in DOMAIN p.bodyToObject
             objA == p.bodyToObject[a]
             objB == p.bodyToObject[b]
             pop1 == IF known THEN onCollision(objB, objA, onCollision(objA, objB, pop)) ELSE pop
         IN collisionStart(p, Tail(pairs), pop1)

\* Engine.update, the solver: a contact that may start in a step is a pair of
\* distinct bodies of the solver's world, at least one of them dynamic. The
\* solver reports a pair of bodies at most once per step; the pair is written
\* with the smaller body id first (the listener treats both sides alike).
ContactPairs(p) ==
    {<<a, b>> \in p.world \X p.world :
        a < b /\ ((a \notin Walls /\ ~isStatic(a)) \/ (b \notin Walls /\ ~isStatic(b)))}

ContactSeqs(p) ==
    UNION {{s \in [1..n -> ContactPairs(p)] : \A i, j \in 1..n : i # j => s[i] # s[j]} :
              n \in 0..MaxContacts}

Dynamic(p) == {b \in p.world \ Walls : ~isStatic(b)}

\* Engine.update moves the dynamic bodies of the solver's world.
update(p) ==
    \E moved \in [Dynamic(p) -> 0..MaxPos] :
        bodyPos' = [b \in DOMAIN bodyPos |-> IF b \in Dynamic(p) THEN moved[b] ELSE bodyPos[b]]

\* step(dt): the beforeStep hooks of the kinds modelled keep only animation
\* phases, the solver moves the dynamic bodies of its world and reports the
\* contacts that start, and the listener dispatches them.
step(p, dt) ==
    /\ \E pop1 \in {collisionStart(p, pairs, popped) : pairs \in ContactSeqs(p)} : popped' = pop1
    /\ update(p)

\* One hook invocation in the log of a step: the entity whose hook runs and the
\* value bound to the hook's first parameter.
Hook(op, e, first) == [op |-> op, arg |-> e, first |-> first]

\* step calls obj.onBeforeUpdate(dt, this): the actual arguments, in order.
beforeUpdateArgs == <<"dt", "this">>

\* The beforeStep hooks step runs, in the order of the tracked set. Every kind
\* declares onBeforeUpdate(engine): the one parameter is bound to the first
\* actual argument.
RECURSIVE onBeforeUpdateCalls(_)
onBeforeUpdateCalls(objs) ==
    IF objs = <<>> THEN <<>>
    ELSE <<Hook("onBeforeUpdate", Head(objs), beforeUpdateArgs[1])>> \o onBeforeUpdateCalls(Tail(objs))

\* The hooks the collisionStart listener calls for one pair, then the event.
dispatch_oneSided(p, pair) ==
    IF pair[1] \in DOMAIN p.bodyToObject /\ pair[2] \in DOMAIN p.bodyToObject
    THEN <<Hook("onCollision", p.bodyToObject[pair[1]], p.bodyToObject[pair[2]]),
           Call("emit:physics:collision", 0)>>
    ELSE <<>>

dispatch(p, pair) ==
    IF pair[1] \in DOMAIN p.bodyToObject /\ pair[2] \in DOMAIN p.bodyToObject
    THEN <<Hook("onCollision", p.bodyToObject[pair[1]], p.bodyToObject[pair[2]]),
           Hook("onCollision", p.bodyToObject[pair[2]], p.bodyToObject[pair[1]]),
           Call("emit:physics:collision", 0)>>
    ELSE <<>>

\* The log of the listener over the pairs of one collisionStart event; each
\* pair the solver reports is logged before the hooks it leads to.
RECURSIVE collisionCalls(_, _)
collisionCalls(p, pairs) ==
    IF pairs = <<>> THEN <<>>
    ELSE <<Hook("pair", Head(pairs)[1], Head(pairs)[2])>> \o dispatch(p, Head(pairs))
             \o collisionCalls(p, Tail(pairs))

\* The calls step(dt) makes when the solver reports the given pairs; the
\* afterStep loop calls nothing, no kind defines onAfterUpdate.
stepCalls(p, dt, pairs) ==
    onBeforeUpdateCalls(p.objects) \o <<Call("Engine.update", dt)>> \o collisionCalls(p, pairs)

\* ----------------------------------------------------------------- GameLoop
\* The frame timestamps the host may pass to a frame callback, in any order.
Timestamps == {t * TimeStep : t \in 0..MaxTick}

\* cancelAnimationFrame(this._rafId) when this._rafId is not null.
CancelLog == IF rafId # {} THEN <<Call("cancelAnimationFrame", CHOOSE i \in rafId : TRUE)>> ELSE <<>>

\* play() takes the snapshot and zeroes the elapsed time on a start from
\* stopped, not on a resume.
playFirst_always == state # RUNNING

playFirst == state = STOPPED

\* play() forgets the last frame timestamp.
playTimestamp_kept(last) == last

playTimestamp(last) == 0

\* play(): start or resume.
GameLoop_play ==
    /\ nextRafId <= MaxRaf
    /\ halted' = FALSE
    /\ UNCHANGED <<speed, popped, disposed, bodyPos>>
    /\ IF state = RUNNING
       THEN /\ calls' = <<Call("play", 0)>>
            /\ UNCHANGED <<state, rafId, elapsed, lastTimestamp, pending, nextRafId,
                           physics, stepped, wasReset, fresh>>
       ELSE /\ physics' = IF playFirst THEN takeSnapshot(physics, popped, bodyPos) ELSE physics
            /\ elapsed' = IF playFirst THEN 0 ELSE elapsed
            /\ state' = RUNNING
            /\ lastTimestamp' = playTimestamp(lastTimestamp)
            /\ rafId' = {nextRafId}
            /\ pending' = pending \cup {nextRafId}
            /\ nextRafId' = nextRafId + 1
            /\ calls' = <<Call("play", 0)>>
                        \o (IF playFirst THEN <<Call("takeSnapshot", 0)>> ELSE <<>>)
                        \o <<Call("requestAnimationFrame", nextRafId), Call("emit:loop:play", elapsed')>>
            /\ stepped' = IF state = STOPPED THEN 0 ELSE stepped
            /\ wasReset' = IF state = STOPPED THEN FALSE ELSE wasReset
            /\ fresh' = IF state = STOPPED THEN "start" ELSE "resume"

\* play() on a loop of its own: the page is left alone.
play ==
    /\ UNCHANGED appVars
    /\ GameLoop_play

\* cancelAnimationFrame(this._rafId): the host drops the callback scheduled
\* under the handle; _rafId null (no handle) cancels nothing.
cancelAnimationFrame_kept(scheduled, handle) == scheduled

cancelAnimationFrame(scheduled, handle) == scheduled \ handle

\* pause() returns at once unless the loop is running.
pauseGuard_none == FALSE

pauseGuard_inverted == state = RUNNING

pauseGuard == state # RUNNING

\* pause(): only from Running.
GameLoop_pause ==
    /\ halted' = TRUE
    /\ UNCHANGED <<elapsed, lastTimestamp, speed, nextRafId, physics, popped, disposed, bodyPos,
                   stepped, wasReset, fresh>>
    /\ IF pauseGuard
       THEN /\ calls' = <<Call("pause", 0)>>
            /\ UNCHANGED <<state, rafId, pending>>
       ELSE /\ state' = PAUSED
            /\ pending' = cancelAnimationFrame(pending, rafId)
            /\ rafId' = {}
            /\ calls' = <<Call("pause", 0)>> \o CancelLog \o <<Call("emit:loop:pause", elapsed)>>

\* pause() on a loop of its own: the page is left alone.
pause ==
    /\ UNCHANGED appVars
    /\ GameLoop_pause

\* The World part of reset(): restoreSnapshot, then clearSnapshot. The result
\* is the World, the body transforms and the calls made, in order.
resetPhysics_clearFirst ==
    LET cleared == clearSnapshot(physics)
    IN [physics |-> cleared,
        bodyPos |-> restoreSnapshot(cleared, popped, bodyPos),
        calls |-> <<Call("clearSnapshot", 0), Call("restoreSnapshot", Flag(hasSnapshot(cleared)))>>]

resetPhysics_keepsSnapshot ==
    [physics |-> physics,
     bodyPos |-> restoreSnapshot(physics, popped, bodyPos),
     calls |-> <<Call("restoreSnapshot", Flag(hasSnapshot(physics)))>>]

resetPhysics ==
    LET restored == restoreSnapshot(physics, popped, bodyPos)
    IN [physics |-> clearSnapshot(physics),
        bodyPos |-> restored,
        calls |-> <<Call("restoreSnapshot", Flag(hasSnapshot(physics))), Call("clearSnapshot", 0)>>]

\* reset(): stop and go back to the snapshot.
GameLoop_reset ==
    /\ pending' = cancelAnimationFrame(pending, rafId)
    /\ rafId' = {}
    /\ state' = STOPPED
    /\ elapsed' = 0
    /\ lastTimestamp' = 0
    /\ bodyPos' = resetPhysics.bodyPos
    /\ physics' = resetPhysics.physics
    /\ calls' = <<Call("reset", 0)>> \o CancelLog \o resetPhysics.calls
                \o <<Call("render", 0), Call("emit:loop:reset", 0)>>
    /\ halted' = TRUE
    /\ wasReset' = TRUE
    /\ fresh' = "no"
    /\ UNCHANGED <<speed, nextRafId, popped, disposed, stepped>>

\* reset() on a loop of its own: the page is left alone.
reset ==
    /\ UNCHANGED appVars
    /\ GameLoop_reset

\* The multiplier cycleSpeed() moves to.
nextSpeed_three(s) == IF s = 3 THEN 1 ELSE s + 1

nextSpeed(s) == IF s = 1 THEN 2 ELSE 1

\* cycleSpeed(): toggle 1x / 2x and pass it to the solver's time scale.
GameLoop_cycleSpeed ==
    /\ speed' = nextSpeed(speed)
    /\ physics' = setTimeScale(physics, speed')
    /\ calls' = <<Call("cycleSpeed", 0), Call("setTimeScale", speed'), Call("emit:loop:speed", speed')>>
    /\ UNCHANGED <<state, rafId, elapsed, lastTimestamp, pending, nextRafId,
                   popped, disposed, bodyPos, halted, stepped, wasReset, fresh>>

\* cycleSpeed() on a loop of its own: the page is left alone.
cycleSpeed ==
    /\ UNCHANGED appVars
    /\ GameLoop_cycleSpeed

\* The dt _frame(timestamp) passes to step.
frameDt_noNominal(timestamp) ==
    LET last == IF lastTimestamp = 0 THEN timestamp ELSE lastTimestamp
        raw == timestamp - last
    IN IF raw > maxDt THEN maxDt ELSE raw

frameDt(timestamp) ==
    LET last == IF lastTimestamp = 0 THEN timestamp ELSE lastTimestamp
        raw == timestamp - last
        capped == IF raw > maxDt THEN maxDt ELSE raw
    IN IF capped <= 0 THEN NominalDt ELSE capped

\* The host runs a scheduled frame callback: _frame(timestamp).
frame ==
    /\ UNCHANGED appVars
    /\ nextRafId <= MaxRaf
    /\ \E id \in pending, timestamp \in Timestamps :
        IF state # RUNNING
        THEN /\ pending' = pending \ {id}
             /\ calls' = <<Call("_frame", timestamp)>>
             /\ UNCHANGED <<state, rafId, elapsed, lastTimestamp, speed, nextRafId,
                            physics, popped, disposed, bodyPos, halted, stepped, wasReset, fresh>>
        ELSE LET dt == frameDt(timestamp)
             IN /\ lastTimestamp' = timestamp
                /\ step(physics, dt)
                /\ elapsed' = elapsed + dt
                /\ rafId' = {nextRafId}
                /\ pending' = (pending \ {id}) \cup {nextRafId}
                /\ nextRafId' = nextRafId + 1
                /\ calls' = <<Call("_frame", timestamp), Call("step", dt), Call("render", 0),
                              Call("emit:loop:frame", dt), Call("requestAnimationFrame", nextRafId)>>
                /\ stepped' = stepped + dt
                /\ fresh' = CASE fresh = "start" -> "after-start"
                               [] fresh = "resume" -> "after-resume"
                               [] OTHER -> "no"
                /\ UNCHANGED <<state, speed, physics, disposed, halted, wasReset>>

\* dispose(): cancel the pending frame and force the state to stopped.
dispose ==
    /\ UNCHANGED appVars
    /\ pending' = cancelAnimationFrame(pending, rafId)
    /\ rafId' = {}
    /\ state' = STOPPED
    /\ calls' = <<Call("dispose", 0)>> \o CancelLog
    /\ halted' = TRUE
    /\ UNCHANGED <<elapsed, lastTimestamp, speed, nextRafId, physics, popped, disposed, bodyPos,
                   stepped, wasReset, fresh>>

\* ------------------------------------------------------------ game objects
\* An options object, reduced to the keys the classes modelled read. A key
\* is {} when the object lacks it, else the set of its one value.
Variants == {"bowling", "tennis"}

Options == [angle : {{}} \cup {{a} : a \in 0..MaxPos},
            isFixed : {{}, {TRUE}},
            variant : {{}} \cup {{v} : v \in Variants}]

\* options = {}
NoOptions == [angle |-> {}, isFixed |-> {}, variant |-> {}]

\* The value of a key that is present.
The(s) == CHOOSE v \in s : TRUE

\* new BaseObject(x, y, options), with the id the counter hands out.
BaseObject_new(id, x, y, options) ==
    [id |-> id,
     x |-> x,
     y |-> y,
     angle |-> IF options.angle = {} THEN 0 ELSE The(options.angle),
     isFixed |-> options.isFixed = {TRUE},
     options |-> options,
     goalId |-> {}]

\* new Ball(x, y, options): _variant = options.variant || 'bowling'.
Ball_new(id, x, y, options) ==
    [class |-> "Ball", type |-> "ball",
     variant |-> IF options.variant = {} THEN {"bowling"} ELSE options.variant]
        @@ BaseObject_new(id, x, y, options)

\* new TennisBall(x, y, opts): super(x, y, {...opts, variant: 'tennis'}).
TennisBall_new(id, x, y, opts) ==
    [class |-> "TennisBall", type |-> "tennis-ball"]
        @@ Ball_new(id, x, y, [opts EXCEPT !.variant = {"tennis"}])

Baseball_new(id, x, y, opts) ==
    [class |-> "Baseball", type |-> "baseball"]
        @@ Ball_new(id, x, y, [opts EXCEPT !.variant = {"baseball"}])

\* new Candle(x, y, options): no option of its own.
Candle_new(id, x, y, options) ==
    [class |-> "Candle", type |-> "candle", variant |-> {}] @@ BaseObject_new(id, x, y, options)

Classes == {"Ball", "TennisBall", "Baseball", "Candle"}

\* new ObjectClass(x, y, options)
ObjectClass_new(class, id, x, y, options) ==
    CASE class = "Ball" -> Ball_new(id, x, y, options)
      [] class = "TennisBall" -> TennisBall_new(id, x, y, options)
      [] class = "Baseball" -> Baseball_new(id, x, y, options)
      [] OTHER -> Candle_new(id, x, y, options)

\* setPosition / setAngle write the pose fields; _options keeps the options
\* of the construction.
setPosition(obj, x, y) == [obj EXCEPT !.x = x, !.y = y]

setAngle(obj, angle) == [obj EXCEPT !.angle = angle]

\* BaseObject.serialize, and Ball.serialize which adds the variant to the
\* options; TennisBall and Baseball inherit Ball.serialize.
BaseObject_serialize(obj) ==
    [type |-> obj.type, x |-> obj.x, y |-> obj.y, angle |-> obj.angle,
     isFixed |-> obj.isFixed, options |-> obj.options]

Ball_serialize(obj) ==
    [BaseObject_serialize(obj) EXCEPT !.options = [obj.options EXCEPT !.variant = obj.variant]]

Serialize(obj) ==
    IF obj.class = "Candle" THEN BaseObject_serialize(obj) ELSE Ball_serialize(obj)

\* The static deserialize of each class.
PoseOptions(data) == [angle |-> {data.angle}, isFixed |-> {data.isFixed}, variant |-> {}]

Ball_deserialize(id, data) ==
    Ball_new(id, data.x, data.y,
             [PoseOptions(data) EXCEPT
                 !.variant = IF data.options.variant = {} THEN {"bowling"} ELSE data.options.variant])

TennisBall_deserialize(id, data) == TennisBall_new(id, data.x, data.y, data.options)

Baseball_deserialize(id, data) == Baseball_new(id, data.x, data.y, data.options)

Candle_deserialize(id, data) == Candle_new(id, data.x, data.y, PoseOptions(data))

ObjectClass_deserialize(class, id, data) ==
    CASE class = "Ball" -> Ball_deserialize(id, data)
      [] class = "TennisBall" -> TennisBall_deserialize(id, data)
      [] class = "Baseball" -> Baseball_deserialize(id, data)
      [] OTHER -> Candle_deserialize(id, data)

\* An id: the number the counter hands out, or a string taken from a file.
\* A part is {} when the id is of the other sort.
NumberId(n) == [number |-> {n}, string |-> {}]

StringId(str) == [number |-> {}, string |-> {str}]

\* The entry of a constructed object in the list of all objects: this._id = _nextId++.
Made(n) == [made |-> n, id |-> NumberId(n)]

\* ----------------------------------------------------------- ObjectRegistry
\* new ObjectRegistry(): an empty Map.
ObjectRegistry == [t \in {} |-> ""]

\* register(type, ObjectClass): set, overwriting an entry of the same name.
register_keepsFirst(reg, type, class) ==
    [t \in DOMAIN reg \cup {type} |-> IF t \in DOMAIN reg THEN reg[t] ELSE class]

register(reg, type, class) ==
    [t \in DOMAIN reg \cup {type} |-> IF t = type THEN class ELSE reg[t]]

\* What create and deserialize do: throw, or return an object.
Thrown == [thrown |-> TRUE, value |-> <<>>]

Returned(obj) == [thrown |-> FALSE, value |-> <<obj>>]

create(reg, type, id, x, y, options) ==
    IF type \notin DOMAIN reg THEN Thrown
    ELSE Returned(ObjectClass_new(reg[type], id, x, y, options))

deserialize(reg, id, data) ==
    IF data.type \notin DOMAIN reg THEN Thrown
    ELSE Returned(ObjectClass_deserialize(reg[data.type], id, data))

\* registerAllObjects(), for the classes modelled: the registrations in order.
Registrations ==
    <<<<"ball", "Ball">>, <<"tennis-ball", "TennisBall">>, <<"baseball", "Baseball">>,
      <<"candle", "Candle">>>>

RECURSIVE registerAll(_, _)
registerAll(reg, rs) ==
    IF rs = <<>> THEN reg
    ELSE registerAll(register(reg, Head(rs)[1], Head(rs)[2]), Tail(rs))

registerAllObjects == registerAll(ObjectRegistry, Registrations)

\* The kind names the inputs are drawn from: the registered ones and one
\* that is never registered.
TypeNames == {"ball", "tennis-ball", "baseball", "candle", "nonexistent"}

\* ------------------------------------------------------------ specification
\* The World handed to the GameLoop holds the first k entities of the
\* universe, added in order, as the play control does before it calls play().
RECURSIVE addAll(_, _)
addAll(p, k) ==
    IF k = 0 THEN p
    ELSE addObject(addAll(p, k - 1), k, [e \in Entities |-> FALSE])

\* new GameLoop(physics, renderCallback), and the entities as constructed.
Constructed ==
    /\ state = STOPPED
    /\ rafId = {}
    /\ elapsed = 0
    /\ lastTimestamp = 0
    /\ speed = 1
    /\ pending = {}
    /\ nextRafId = 1
    /\ popped = [e \in Entities |-> FALSE]
    /\ disposed = [e \in Entities |-> FALSE]
    /\ bodyPos = [b \in AllBodies |-> 0]
    /\ calls = <<Call("constructor", 0)>>
    /\ halted = FALSE
    /\ stepped = 0
    /\ wasReset = FALSE
    /\ fresh = "no"

\* No object was created or serialized yet.
NoResult == [thrown |-> FALSE, value |-> <<>>]

CatalogIdle ==
    /\ made = NoResult
    /\ subject = <<>>
    /\ nextId = 1
    /\ everMade = <<>>

\* The objects of the later sections are absent, but for the ones named in S.
GadgetIdle(S) ==
    /\ IF "bucket" \in S THEN TRUE ELSE bucket = <<>>
    /\ IF "spring" \in S THEN TRUE ELSE spring = <<>>
    /\ IF "gears" \in S THEN TRUE ELSE gears = <<>>
    /\ IF "inventory" \in S THEN TRUE ELSE inventory = <<>>
    /\ IF "ui" \in S THEN TRUE ELSE ui = <<>>
    /\ IF "bus" \in S THEN TRUE ELSE bus = <<>>
    /\ IF "onBoard" \in S THEN TRUE ELSE onBoard = <<>>

\* new LevelManager(): no current level, an empty cache; the canvas as
\* init() sized it.
ManagerIdle ==
    /\ levelCache = [id \in {} |-> 0]
    /\ currentLevel = {}
    /\ canvas = InitialSize
    /\ twins = <<>>
    /\ mode = "MENU"
    /\ savedPlacedSnapshot = <<>>
    /\ parts = <<>>
    /\ edited = <<>>
    /\ GadgetIdle({})

\* new DragDropManager(), and an empty board.
BoardIdle ==
    /\ levelData = <<>>
    /\ placedObjects = <<>>
    /\ selectedObject = {}
    /\ dragging = FALSE
    /\ dragType = "null"
    /\ dragObjType = {}
    /\ dragObject = {}
    /\ enabled = FALSE

\* The application after init(): the kinds registered, nothing on the board.
Started ==
    /\ registry = registerAllObjects
    /\ CatalogIdle
    /\ BoardIdle
    /\ ManagerIdle

\* The application in mode m with an empty World and board, and the objects
\* of the later sections absent but for the ones named in S.
AppIdle(m, S) ==
    /\ registry = registerAllObjects
    /\ CatalogIdle
    /\ BoardIdle
    /\ levelCache = [id \in {} |-> 0]
    /\ currentLevel = {}
    /\ canvas = InitialSize
    /\ twins = <<>>
    /\ mode = m
    /\ savedPlacedSnapshot = <<>>
    /\ parts = <<>>
    /\ edited = <<>>
    /\ GadgetIdle(S)

Init ==
    /\ Constructed
    /\ Started
    /\ physics = addAll(constructor, NumEntities)

Next ==
    \/ play
    \/ pause
    \/ reset
    \/ cycleSpeed
    \/ frame
    \/ dispose

Spec == Init /\ [][Next]_vars

\* ------------------------------------------------------- a hook that raises
\* step(dt) when a hook raises: neither step nor the collisionStart listener
\* catches. Either a beforeStep hook raises and the solver does not run, or
\* the solver moves the bodies and an onCollision hook of the last pair it
\* dispatches raises, the first one of the pair or the second one; the pairs
\* before it were dispatched in full.
stepThrows(p, dt) ==
    \/ /\ p.objects # <<>>
       /\ UNCHANGED <<popped, bodyPos>>
    \/ /\ \E pop1 \in UNION {
              LET last == pairs[Len(pairs)]
                  before == collisionStart(p, SubSeq(pairs, 1, Len(pairs) - 1), popped)
                  objA == p.bodyToObject[last[1]]
                  objB == p.bodyToObject[last[2]]
              IN {before, onCollision(objA, objB, before)} :
              pairs \in {s \in ContactSeqs(p) :
                            /\ s # <<>>
                            /\ s[Len(s)][1] \in DOMAIN p.bodyToObject
                            /\ s[Len(s)][2] \in DOMAIN p.bodyToObject}} : popped' = pop1
       /\ update(p)

\* After the call of step in _frame: the statements an exception skips.
afterStep_caught(dt, id) ==
    [elapsed |-> elapsed + dt,
     rafId |-> {nextRafId},
     pending |-> (pending \ {id}) \cup {nextRafId},
     nextRafId |-> nextRafId + 1,
     calls |-> <<Call("render", 0), Call("emit:loop:frame", dt),
                 Call("requestAnimationFrame", nextRafId)>>]

afterStep(dt, id) ==
    [elapsed |-> elapsed,
     rafId |-> rafId,
     pending |-> pending \ {id},
     nextRafId |-> nextRafId,
     calls |-> <<>>]

\* The host runs a scheduled frame callback of a running loop and a hook
\* raises in step: the exception leaves _frame.
frameThrows ==
    /\ UNCHANGED appVars
    /\ state = RUNNING
    /\ nextRafId <= MaxRaf
    /\ \E id \in pending, timestamp \in Timestamps :
          LET dt == frameDt(timestamp)
          IN /\ lastTimestamp' = timestamp
             /\ stepThrows(physics, dt)
             /\ elapsed' = afterStep(dt, id).elapsed
             /\ rafId' = afterStep(dt, id).rafId
             /\ pending' = afterStep(dt, id).pending
             /\ nextRafId' = afterStep(dt, id).nextRafId
             /\ calls' = <<Call("_frame", timestamp), Call("step", dt), Call("throw", 0)>>
                            \o afterStep(dt, id).calls
             /\ stepped' = stepped + dt
             /\ fresh' = CASE fresh = "start" -> "after-start"
                            [] fresh = "resume" -> "after-resume"
                            [] OTHER -> "no"
             /\ UNCHANGED <<state, speed, physics, disposed, halted, wasReset>>

\* The loop with frames that may raise. The speed control is left out: it
\* reads and writes neither the loop state nor the frame scheduled.
ThrowNext ==
    \/ play
    \/ pause
    \/ reset
    \/ frame
    \/ dispose
    \/ frameThrows

ThrowSpec == Init /\ [][ThrowNext]_vars

\* ------------------------------------------------- the World's own operations
\* addObject on an entity that is not tracked and was never disposed.
AddEntity(e) ==
    /\ UNCHANGED appVars
    /\ e \notin Range(physics.objects)
    /\ ~disposed[e]
    /\ physics' = addObject(physics, e, popped)
    /\ calls' = <<Call("addObject", e), Call("emit:physics:object-added", e)>>
    /\ UNCHANGED <<loopVars, ghostVars, popped, disposed, bodyPos>>

\* removeObject on a tracked entity; the entity is disposed at the end.
RemoveEntity(e) ==
    /\ UNCHANGED appVars
    /\ e \in Range(physics.objects)
    /\ physics' = removeObject(physics, e, popped)
    /\ disposed' = [disposed EXCEPT ![e] = TRUE]
    /\ calls' = <<Call("removeObject", e), Call("dispose", e), Call("emit:physics:object-removed", e)>>
    /\ UNCHANGED <<loopVars, ghostVars, popped, bodyPos>>

ClearWorld ==
    /\ UNCHANGED appVars
    /\ physics' = clear(physics, popped)
    /\ disposed' = [e \in Entities |-> disposed[e] \/ e \in Range(physics.objects)]
    /\ calls' = <<Call("clear", 0)>>
    /\ UNCHANGED <<loopVars, ghostVars, popped, bodyPos>>

StepWorld ==
    /\ UNCHANGED appVars
    /\ step(physics, NominalDt)
    /\ calls' = <<Call("step", NominalDt)>>
    /\ UNCHANGED <<loopVars, ghostVars, physics, disposed>>

TakeSnapshot ==
    /\ UNCHANGED appVars
    /\ physics' = takeSnapshot(physics, popped, bodyPos)
    /\ calls' = <<Call("takeSnapshot", Flag(hasSnapshot(physics)))>>
    /\ UNCHANGED <<loopVars, ghostVars, popped, disposed, bodyPos>>

RestoreSnapshot ==
    /\ UNCHANGED appVars
    /\ bodyPos' = restoreSnapshot(physics, popped, bodyPos)
    /\ calls' = <<Call("restoreSnapshot", Flag(hasSnapshot(physics)))>>
    /\ UNCHANGED <<loopVars, ghostVars, physics, popped, disposed>>

ClearSnapshot ==
    /\ UNCHANGED appVars
    /\ physics' = clearSnapshot(physics)
    /\ calls' = <<Call("clearSnapshot", 0)>>
    /\ UNCHANGED <<loopVars, ghostVars, popped, disposed, bodyPos>>

WorldInit ==
    /\ Constructed
    /\ Started
    /\ physics = constructor

WorldNext ==
    \/ \E e \in Entities : AddEntity(e)
    \/ \E e \in Entities : RemoveEntity(e)
    \/ ClearWorld
    \/ StepWorld
    \/ TakeSnapshot
    \/ RestoreSnapshot
    \/ ClearSnapshot

WorldSpec == WorldInit /\ [][WorldNext]_vars

\* ------------------------------------------------------------------ resize
\* The resize listener of the window: resizeCanvas sizes the canvas to the
\* game area and emits canvas:resized, which has no subscriber.
ResizeCanvas(size) ==
    /\ canvas' = size
    /\ calls' = <<Call("resize", 0), Call("emit:canvas:resized", size.width)>>
    /\ UNCHANGED <<loopVars, worldVars, ghostVars, catalogVars, boardVars, managerVars, twinVars, contactVars, gadgetVars, modeVars>>

PageNext ==
    \/ \E size \in CanvasSizes : ResizeCanvas(size)
    \/ \E e \in Entities : AddEntity(e)
    \/ \E e \in Entities : RemoveEntity(e)
    \/ ClearWorld
    \/ StepWorld

PageSpec == WorldInit /\ [][PageNext]_vars

\* ------------------------------------------------------------ two Worlds
\* A phase is counted in quarter turns; Math.random() * Math.PI * 2 is any of
\* them, and a beforeStep hook advances the phase by one unit.
Phases == 0..3

sin(phase) == CASE phase % 4 = 1 -> 1 [] phase % 4 = 3 -> -1 [] OTHER -> 0

ColorIndexes == 0..4

\* The options of a balloon record: colorIndex is {} when the record lacks it.
BalloonOptions == [colorIndex : {{}} \cup {{c} : c \in ColorIndexes}]

\* new Balloon(x, y, options), with the two values Math.random() returns
\* (already scaled): the colour index when the options give none, and the bob
\* phase.
Balloon_new(x, y, options, randomColor, randomPhase) ==
    [x |-> x,
     y |-> y,
     colorIndex |-> IF options.colorIndex = {} THEN randomColor ELSE The(options.colorIndex),
     bobPhase |-> randomPhase,
     popped |-> FALSE,
     force |-> <<0, 0>>]

\* Balloon.onBeforeUpdate: advance the bob phase and apply the force
\* (sin(bobPhase) * 0.00005, BUOYANCY_FORCE * mass * 20), here in units of
\* 0.00005 sideways and of the buoyancy upwards.
Balloon_onBeforeUpdate(b) ==
    IF b.popped THEN [b EXCEPT !.force = <<0, 0>>]
    ELSE [b EXCEPT !.bobPhase = (@ + 1) % 4, !.force = <<sin((b.bobPhase + 1) % 4), -1>>]

\* The solver has no randomness: it moves a body by the force applied to it,
\* within the playfield.
integrate(b) ==
    [b EXCEPT !.x = IF b.x + b.force[1] \in 0..MaxPos THEN b.x + b.force[1] ELSE b.x]

\* step(dt) of both Worlds.
StepTwins ==
    /\ twins' = [w \in 1..2 |-> integrate(Balloon_onBeforeUpdate(twins[w]))]
    /\ calls' = <<Call("stepTwins", NominalDt)>>
    /\ UNCHANGED <<loopVars, worldVars, ghostVars, catalogVars, boardVars, managerVars, pageVars, modeVars, contactVars, gadgetVars>>

\* Both Worlds are populated from one balloon record with every option given;
\* each construction draws its own random values.
TwinInit ==
    /\ Constructed
    /\ physics = constructor
    /\ registry = registerAllObjects
    /\ CatalogIdle
    /\ BoardIdle
    /\ levelCache = [id \in {} |-> 0]
    /\ currentLevel = {}
    /\ canvas = InitialSize
    /\ mode = "MENU"
    /\ savedPlacedSnapshot = <<>>
    /\ parts = <<>>
    /\ edited = <<>>
    /\ GadgetIdle({})
    /\ \E x \in 0..MaxPos, options \in {o \in BalloonOptions : o.colorIndex # {}} :
          \E r \in [1..2 -> ColorIndexes \X Phases] :
              twins = [w \in 1..2 |-> Balloon_new(x, 0, options, r[w][1], r[w][2])]

TwinNext == StepTwins

TwinSpec == TwinInit /\ [][TwinNext]_vars

\* ------------------------------------------------------ the hooks of a step
\* step(dt) on a populated World, with the hooks it calls in the log.
StepHooks ==
    \E pairs \in ContactSeqs(physics) :
        /\ UNCHANGED appVars
        /\ popped' = collisionStart(physics, pairs, popped)
        /\ update(physics)
        /\ calls' = <<Call("step", NominalDt)>> \o stepCalls(physics, NominalDt, pairs)
        /\ UNCHANGED <<loopVars, ghostVars, physics, disposed>>

\* The World holds the first k entities of the universe, for any k.
HookInit ==
    /\ Constructed
    /\ Started
    /\ \E k \in 0..NumEntities : physics = addAll(constructor, k)

HookNext == StepHooks

HookSpec == HookInit /\ [][HookNext]_vars

\* ---------------------------------------------------------------- the catalog
\* The request an operation of the catalog was called with.
Request(op, type, class) == [op |-> op, arg |-> 0, type |-> type, class |-> class]

\* The registrations the inputs are drawn from: the ones of registerAllObjects
\* and one that registers another class under a name already taken.
RegisterInputs == Range(Registrations) \cup {<<"ball", "Baseball">>}

\* Saved data as handed to deserialize.
CatalogData ==
    {[type |-> t, x |-> x, y |-> 0, angle |-> a, isFixed |-> FALSE, options |-> NoOptions] :
        t \in TypeNames, x \in 0..MaxPos, a \in 0..MaxPos}

Register(type, class) ==
    /\ registry' = register(registry, type, class)
    /\ calls' = <<Request("register", type, class)>>
                 \o (IF type \in DOMAIN registry THEN <<Call("console.warn", 0)>> ELSE <<>>)
    /\ UNCHANGED <<loopVars, worldVars, ghostVars, boardVars, managerVars, pageVars, twinVars, contactVars, gadgetVars, modeVars, made, subject, nextId, everMade>>

\* objectRegistry.create(type, x, y): the constructor runs, and takes an id,
\* only when the kind is registered.
Create(type, x, y) ==
    /\ nextId <= MaxId
    /\ made' = create(registry, type, nextId, x, y, NoOptions)
    /\ nextId' = IF made'.thrown THEN nextId ELSE nextId + 1
    /\ everMade' = IF made'.thrown THEN everMade ELSE Append(everMade, Made(nextId))
    /\ calls' = <<Request("create", type, "")>>
    /\ UNCHANGED <<loopVars, worldVars, ghostVars, boardVars, managerVars, pageVars, twinVars, contactVars, gadgetVars, modeVars, registry, subject>>

Deserialize(data) ==
    /\ nextId <= MaxId
    /\ made' = deserialize(registry, nextId, data)
    /\ nextId' = IF made'.thrown THEN nextId ELSE nextId + 1
    /\ everMade' = IF made'.thrown THEN everMade ELSE Append(everMade, Made(nextId))
    /\ calls' = <<Request("deserialize", data.type, "")>>
    /\ UNCHANGED <<loopVars, worldVars, ghostVars, boardVars, managerVars, pageVars, twinVars, contactVars, gadgetVars, modeVars, registry, subject>>

CatalogInit ==
    /\ Constructed
    /\ physics = constructor
    /\ registry = ObjectRegistry
    /\ CatalogIdle
    /\ BoardIdle
    /\ ManagerIdle

CatalogNext ==
    \/ \E r \in RegisterInputs : Register(r[1], r[2])
    \/ \E type \in TypeNames, x, y \in 0..MaxPos : Create(type, x, y)
    \/ \E data \in CatalogData : Deserialize(data)

CatalogSpec == CatalogInit /\ [][CatalogNext]_vars

\* ------------------------------------------------------------ serialization
\* An object of a registered kind, constructed with any options, then moved
\* and rotated, then serialized and deserialized through the catalog.
SetPosition(x, y) ==
    /\ subject' = <<setPosition(subject[1], x, y)>>
    /\ calls' = <<Call("setPosition", x)>>
    /\ UNCHANGED <<loopVars, worldVars, ghostVars, boardVars, managerVars, pageVars, twinVars, contactVars, gadgetVars, modeVars, registry, made, nextId, everMade>>

SetAngle(angle) ==
    /\ subject' = <<setAngle(subject[1], angle)>>
    /\ calls' = <<Call("setAngle", angle)>>
    /\ UNCHANGED <<loopVars, worldVars, ghostVars, boardVars, managerVars, pageVars, twinVars, contactVars, gadgetVars, modeVars, registry, made, nextId, everMade>>

RoundTrip ==
    /\ nextId <= MaxId
    /\ made' = deserialize(registry, nextId, Serialize(subject[1]))
    /\ nextId' = IF made'.thrown THEN nextId ELSE nextId + 1
    /\ everMade' = IF made'.thrown THEN everMade ELSE Append(everMade, Made(nextId))
    /\ calls' = <<Call("roundTrip", 0)>>
    /\ UNCHANGED <<loopVars, worldVars, ghostVars, boardVars, managerVars, pageVars, twinVars, contactVars, gadgetVars, modeVars, registry, subject>>

SerialInit ==
    /\ Constructed
    /\ physics = constructor
    /\ registry = registerAllObjects
    /\ BoardIdle
    /\ ManagerIdle
    /\ made = NoResult
    /\ nextId = 2
    /\ everMade = <<Made(1)>>
    /\ \E type \in DOMAIN registerAllObjects, x, y \in 0..MaxPos, options \in Options :
          subject = create(registerAllObjects, type, 1, x, y, options).value

SerialNext ==
    \/ \E x, y \in 0..MaxPos : SetPosition(x, y)
    \/ \E angle \in 0..MaxPos : SetAngle(angle)
    \/ RoundTrip

SerialSpec == SerialInit /\ [][SerialNext]_vars

\* ---------------------------------------------------------------- level load
\* A fixedObjects record of a level file. The angle and the goal id may be
\* missing; the options carry the kind-specific fields.
LevelRecords ==
    [type : {"ball", "candle", "nonexistent"},
     x : {0, MaxPos},
     y : {0},
     angle : {{}, {MaxPos}},
     options : {NoOptions, [NoOptions EXCEPT !.variant = {"tennis"}]},
     id : {{}, {"goal"}}]

Levels == UNION {[1..n -> LevelRecords] : n \in 0..MaxRecords}

\* The options _setupLevel passes to create: { angle: objData.angle || 0, isFixed: true }.
setupOptions(objData) ==
    [angle |-> {IF objData.angle = {} THEN 0 ELSE The(objData.angle)},
     isFixed |-> {TRUE},
     variant |-> {}]

\* The loop of _setupLevel over the records: a record whose create throws is
\* logged and skipped, the others are pushed with their goal id.
RECURSIVE createFixed(_, _, _)
createFixed(reg, records, id) ==
    IF records = <<>> THEN <<>>
    ELSE LET objData == Head(records)
             res == create(reg, objData.type, id, objData.x, objData.y, setupOptions(objData))
         IN IF res.thrown THEN createFixed(reg, Tail(records), id)
            ELSE <<[res.value[1] EXCEPT !.goalId = objData.id]>>
                    \o createFixed(reg, Tail(records), id + 1)

\* The records of a level whose kind is registered, in order.
Known(reg, records) == SelectSeq(records, LAMBDA r : r.type \in DOMAIN reg)

\* _setupLevel(levelData): clear the World, empty the board, create the fixed
\* objects, the first of them with the given id, hand the board to the renderer.
setupLevel(records, id) ==
    /\ physics' = clear(physics, popped)
    /\ disposed' = [e \in Entities |-> disposed[e] \/ e \in Range(physics.objects)]
    /\ placedObjects' = createFixed(registry, records, id)

\* The objects the loop of _setupLevel constructs, the first with the given id.
RECURSIVE madeFixed(_, _, _)
madeFixed(reg, records, id) ==
    IF records = <<>> THEN <<>>
    ELSE IF Head(records).type \notin DOMAIN reg THEN madeFixed(reg, Tail(records), id)
    ELSE <<Made(id)>> \o madeFixed(reg, Tail(records), id + 1)

\* The objects the loop of _applyLoadedLevel constructs:
\* if (objData.id) obj._id = objData.id.
RECURSIVE madeImported(_, _, _)
madeImported(reg, records, id) ==
    IF records = <<>> THEN <<>>
    ELSE IF Head(records).type \notin DOMAIN reg THEN madeImported(reg, Tail(records), id)
    ELSE <<IF Head(records).id = {} THEN Made(id)
           ELSE [Made(id) EXCEPT !.id = StringId(The(Head(records).id))]>>
            \o madeImported(reg, Tail(records), id + 1)

\* The level:loaded handler of the application.
LevelLoaded ==
    /\ nextId + Len(Known(registry, levelData)) <= MaxId + 1
    /\ setupLevel(levelData, nextId)
    /\ nextId' = nextId + Len(Known(registry, levelData))
    /\ everMade' = everMade \o madeFixed(registry, levelData, nextId)
    /\ calls' = <<Call("level:loaded", 0), Call("clear", 0), Call("renderer.setObjects", 0)>>
    /\ UNCHANGED <<loopVars, ghostVars, managerVars, pageVars, twinVars, contactVars, gadgetVars, modeVars, popped, bodyPos, registry, made, subject, levelData,
                   selectedObject, dragging, dragType, dragObjType, dragObject, enabled>>

\* EditorPanel._applyLoadedLevel(data): it creates the fixed objects itself
\* (they take ids), replaces the board by them and clears the selection, then
\* emits level:loaded, whose handler sets the level up again from the records.
ApplyLoadedLevel ==
    /\ nextId + 2 * Len(Known(registry, levelData)) <= MaxId + 1
    /\ setupLevel(levelData, nextId + Len(Known(registry, levelData)))
    /\ nextId' = nextId + 2 * Len(Known(registry, levelData))
    /\ everMade' = everMade \o madeImported(registry, levelData, nextId)
                    \o madeFixed(registry, levelData, nextId + Len(Known(registry, levelData)))
    /\ selectedObject' = {}
    /\ calls' = <<Call("_applyLoadedLevel", 0), Call("renderer.setObjects", 0),
                  Call("emit:object:selected", 0), Call("emit:level:loaded", 0),
                  Call("clear", 0), Call("renderer.setObjects", 0)>>
    /\ UNCHANGED <<loopVars, ghostVars, managerVars, pageVars, twinVars, contactVars, gadgetVars, modeVars, popped, bodyPos, registry, made, subject, levelData,
                   dragging, dragType, dragObjType, dragObject, enabled>>

\* The level the level manager holds is any level of the universe.
LevelInit ==
    /\ Constructed
    /\ physics = constructor
    /\ registry = registerAllObjects
    /\ CatalogIdle
    /\ ManagerIdle
    /\ levelData \in Levels
    /\ placedObjects = <<>>
    /\ selectedObject = {}
    /\ dragging = FALSE
    /\ dragType = "null"
    /\ dragObjType = {}
    /\ dragObject = {}
    /\ enabled = FALSE

LevelNext ==
    \/ LevelLoaded
    \/ ApplyLoadedLevel

LevelSpec == LevelInit /\ [][LevelNext]_vars

\* ------------------------------------------------------------ drag and drop
\* The board is a row of cells; an object covers the cell of its position, and
\* the rotate handle turns the selected object to one of two angles.
Cells == {0, 1}

Angles == {0, 1}

Handles == {"delete", "move", "rotate", "null"}

\* The kinds a toolbox drag may carry.
ToolboxTypes == {"ball", "nonexistent"}

\* A reference to an object; its fixed flag never changes.
Ref(obj) == [id |-> obj.id, isFixed |-> obj.isFixed]

\* The fields of the DragDropManager an input works on, with the calls made.
Manager ==
    [objects |-> placedObjects,
     selectedObject |-> selectedObject,
     dragging |-> dragging,
     dragType |-> dragType,
     dragObjType |-> dragObjType,
     dragObject |-> dragObject,
     log |-> <<>>]

\* renderer.getObjectAtPoint: the topmost (last) object that covers the point,
\* {} when there is none.
getObjectAtPoint(x, y, objects) ==
    LET hits == {i \in 1..Len(objects) : objects[i].x = x /\ objects[i].y = y}
    IN IF hits = {} THEN {}
       ELSE {objects[CHOOSE i \in hits : \A j \in hits : j <= i]}

_selectObject(d, sel) ==
    [d EXCEPT !.selectedObject = sel,
              !.log = @ \o <<Call("emit:object:selected", IF sel = {} THEN 0 ELSE The(sel).id)>>]

_startMoveObject(d) ==
    IF d.selectedObject = {} \/ The(d.selectedObject).isFixed THEN d
    ELSE [d EXCEPT !.dragging = TRUE, !.dragType = "move", !.dragObject = d.selectedObject]

_startRotateObject(d) ==
    IF d.selectedObject = {} \/ The(d.selectedObject).isFixed THEN d
    ELSE [d EXCEPT !.dragging = TRUE, !.dragType = "rotate", !.dragObject = d.selectedObject]

_deleteSelected(d) ==
    IF d.selectedObject = {} \/ The(d.selectedObject).isFixed THEN d
    ELSE LET id == The(d.selectedObject).id
         IN _selectObject(
                [d EXCEPT !.objects = SelectSeq(@, LAMBDA o : o.id # id),
                          !.log = @ \o <<Call("emit:object:removed", id), Call("dispose", id)>>],
                {})

\* _placeObject: nothing when the toolbox has none left; a create that throws
\* is logged.
_placeObject(d, reg, type, x, y, remaining, id) ==
    IF remaining <= 0 THEN d
    ELSE LET res == create(reg, type, id, x, y, NoOptions)
         IN IF res.thrown THEN [d EXCEPT !.log = @ \o <<Call("console.error", 0)>>]
            ELSE LET placed == _selectObject([d EXCEPT !.objects = Append(@, res.value[1])],
                                             {Ref(res.value[1])})
                 IN [placed EXCEPT !.log = @ \o <<Call("emit:object:placed", id)>>]

\* The mousedown listener takes an object under the pointer for editing
\* unless it is fixed.
editable_any(obj) == TRUE

editable(obj) == ~obj.isFixed

\* The mousedown listener past its guards: a handle of the selected object
\* first, else the object under the pointer.
mousedown(d, x, y, handle) ==
    IF d.selectedObject # {} /\ handle = "delete" THEN _deleteSelected(d)
    ELSE IF d.selectedObject # {} /\ handle = "move" THEN _startMoveObject(d)
    ELSE IF d.selectedObject # {} /\ handle = "rotate" THEN _startRotateObject(d)
    ELSE LET obj == getObjectAtPoint(x, y, d.objects)
         IN IF obj = {} THEN _selectObject(d, {})
            ELSE IF editable(The(obj)) THEN _startMoveObject(_selectObject(d, {Ref(The(obj))}))
            ELSE _selectObject(d, {})

\* Toolbox.getCount(type); the sandbox has parts without end, written as
\* more than a board can hold.
getCount(inv, sandbox, type) ==
    IF sandbox THEN MaxId + 1
    ELSE IF type \in DOMAIN inv THEN inv[type] ELSE 0

\* The kind of the object with the given id.
typeOfId(objects, id) ==
    LET at == {i \in 1..Len(objects) : objects[i].id = id}
    IN objects[CHOOSE i \in at : TRUE].type

\* The object:placed and object:removed handlers of the Toolbox.
onPlaced(inv, sandbox, type) ==
    IF ~sandbox /\ type \in DOMAIN inv
    THEN [inv EXCEPT ![type] = IF @ - 1 < 0 THEN 0 ELSE @ - 1] ELSE inv

onRemoved(inv, sandbox, type) ==
    IF ~sandbox /\ type \in DOMAIN inv THEN [inv EXCEPT ![type] = @ + 1] ELSE inv

\* The Toolbox after the notifications of a log, in order: before is the
\* board before the input, after the board after it.
RECURSIVE toolboxAfter(_, _, _, _, _)
toolboxAfter(inv, sandbox, log, before, after) ==
    IF log = <<>> THEN inv
    ELSE LET e == Head(log)
             next == IF e.op = "emit:object:placed"
                     THEN onPlaced(inv, sandbox, typeOfId(after, e.arg))
                     ELSE IF e.op = "emit:object:removed"
                     THEN onRemoved(inv, sandbox, typeOfId(before, e.arg))
                     ELSE inv
         IN toolboxAfter(next, sandbox, Tail(log), before, after)

\* An input leaves the manager as d and made the calls of d.log, the
\* subscribers of its notifications having run.
Commit(d, op, arg) ==
    /\ inventory' = toolboxAfter(inventory, mode = "SANDBOX", d.log, placedObjects, d.objects)
    /\ placedObjects' = d.objects
    /\ selectedObject' = d.selectedObject
    /\ dragging' = d.dragging
    /\ dragType' = d.dragType
    /\ dragObjType' = d.dragObjType
    /\ dragObject' = d.dragObject
    /\ calls' = <<Call(op, arg)>> \o d.log

boardFrame == <<loopVars, worldVars, ghostVars, managerVars, pageVars, twinVars, contactVars, bucket, spring, gears, ui, bus, onBoard, modeVars, registry, made, subject, levelData>>

ToolboxDragStart(type) ==
    /\ Commit(IF ~enabled THEN Manager
              ELSE [Manager EXCEPT !.dragging = TRUE, !.dragType = "toolbox", !.dragObjType = {type},
                                   !.log = <<Call("emit:drag:ghost-update", 0)>>],
              "toolbox:drag-start", 0)
    /\ UNCHANGED <<boardFrame, nextId, everMade, enabled>>

MouseDown(button, x, y, handle) ==
    /\ Commit(IF ~enabled \/ button # 0 THEN Manager ELSE mousedown(Manager, x, y, handle),
              "mousedown", x)
    /\ UNCHANGED <<boardFrame, nextId, everMade, enabled>>

\* mousemove: a move drag sets the position of the dragged object, a rotate
\* drag its angle (the angle from the object to the pointer).
MouseMove(x, y, angle) ==
    /\ Commit(IF ~dragging THEN Manager
              ELSE IF dragType = "toolbox"
                   THEN [Manager EXCEPT !.log = <<Call("emit:drag:ghost-update", 0)>>]
              ELSE IF dragType = "move" /\ dragObject # {}
                   THEN [Manager EXCEPT !.objects = [i \in 1..Len(placedObjects) |->
                            IF placedObjects[i].id = The(dragObject).id
                            THEN setPosition(placedObjects[i], x, y) ELSE placedObjects[i]]]
              ELSE IF dragType = "rotate" /\ dragObject # {}
                   THEN [Manager EXCEPT !.objects = [i \in 1..Len(placedObjects) |->
                            IF placedObjects[i].id = The(dragObject).id
                            THEN setAngle(placedObjects[i], angle) ELSE placedObjects[i]]]
              ELSE Manager,
              "mousemove", x)
    /\ UNCHANGED <<boardFrame, nextId, everMade, enabled>>

\* mouseup: a toolbox drag places an object when the toolbox has one left;
\* every drag ends.
MouseUp(x, y, remaining) ==
    /\ (dragging /\ dragType = "toolbox") => nextId <= MaxId
    /\ LET dropped == IF dragType = "toolbox"
                      THEN [_placeObject(Manager, registry, The(dragObjType), x, y, remaining, nextId)
                               EXCEPT !.log = @ \o <<Call("emit:drag:ghost-clear", 0)>>]
                      ELSE IF dragType = "move" /\ dragObject # {}
                           THEN [Manager EXCEPT !.log = <<Call("emit:object:moved", The(dragObject).id)>>]
                      ELSE Manager
       IN /\ Commit(IF ~dragging THEN Manager
                    ELSE [dropped EXCEPT !.dragging = FALSE, !.dragType = "null",
                                         !.dragObjType = {}, !.dragObject = {}],
                    "mouseup", x)
          /\ nextId' = IF dragging /\ Len(dropped.objects) > Len(placedObjects)
                       THEN nextId + 1 ELSE nextId
          /\ everMade' = IF dragging /\ Len(dropped.objects) > Len(placedObjects)
                         THEN Append(everMade, Made(nextId)) ELSE everMade
    /\ UNCHANGED <<boardFrame, enabled>>

ContextMenu(x, y) ==
    /\ LET obj == getObjectAtPoint(x, y, placedObjects)
       IN Commit(IF enabled /\ obj # {} /\ ~The(obj).isFixed
                 THEN _deleteSelected(_selectObject(Manager, {Ref(The(obj))}))
                 ELSE Manager,
                 "contextmenu", x)
    /\ UNCHANGED <<boardFrame, nextId, everMade, enabled>>

\* keydown outside a text field: Delete or Backspace deletes the selection.
KeyDown(code) ==
    /\ Commit(IF enabled /\ code \in {"Delete", "Backspace"} /\ selectedObject # {}
              THEN _deleteSelected(Manager) ELSE Manager,
              "keydown", 0)
    /\ UNCHANGED <<boardFrame, nextId, everMade, enabled>>

\* mode:changed: editing is enabled in the EDITING and SANDBOX modes; leaving
\* them clears the selection and stops the drag.
ModeChanged(newMode) ==
    /\ enabled' = (newMode \in {"EDITING", "SANDBOX"})
    /\ Commit(IF enabled' THEN Manager
              ELSE [_selectObject(Manager, {}) EXCEPT
                       !.dragging = FALSE, !.log = @ \o <<Call("emit:drag:ghost-clear", 0)>>],
              "mode:changed", 0)
    /\ UNCHANGED <<boardFrame, nextId, everMade>>

\* The boards the editing starts from: a level with a fixed ball and a fixed
\* candle, each in any cell, set up by the level load.
BoardLevels ==
    {<<[type |-> "ball", x |-> a, y |-> 0, angle |-> {}, options |-> NoOptions, id |-> {}],
       [type |-> "candle", x |-> b, y |-> 0, angle |-> {}, options |-> NoOptions, id |-> {"goal"}]>> :
        a \in Cells, b \in Cells}

BoardInit ==
    /\ Constructed
    /\ physics = constructor
    /\ registry = registerAllObjects
    /\ ManagerIdle
    /\ made = NoResult
    /\ subject = <<>>
    /\ levelData \in BoardLevels
    /\ placedObjects = createFixed(registry, levelData, 1)
    /\ nextId = Len(placedObjects) + 1
    /\ everMade = madeFixed(registry, levelData, 1)
    /\ selectedObject = {}
    /\ dragging = FALSE
    /\ dragType = "null"
    /\ dragObjType = {}
    /\ dragObject = {}
    /\ enabled = FALSE

BoardNext ==
    \/ \E type \in ToolboxTypes : ToolboxDragStart(type)
    \/ \E button \in {0, 2}, x \in Cells, handle \in Handles : MouseDown(button, x, 0, handle)
    \/ \E x \in Cells, angle \in Angles : MouseMove(x, 0, angle)
    \/ \E x \in Cells, remaining \in {0, 1} : MouseUp(x, 0, remaining)
    \/ \E x \in Cells : ContextMenu(x, 0)
    \/ \E code \in {"Delete", "KeyA"} : KeyDown(code)
    \/ \E newMode \in {"EDITING", "PLAYING"} : ModeChanged(newMode)

BoardSpec == BoardInit /\ [][BoardNext]_vars

\* ------------------------------------------------------------ LevelManager
\* The first level ids of LEVEL_ORDER.
LevelIds == {"level-01", "level-02"}

\* The JSON a level file may hold, reduced to what _validate reads. A field is
\* {} when the data lacks it; fixedObjects and availableParts are given by the
\* sort of their value.
WellFormed ==
    [id |-> {"level"}, name |-> {"name"}, goal |-> {[type |-> {"object_in_zone"}]},
     fixedObjects |-> {"array"}, availableParts |-> {"object"}]

LevelFiles ==
    {WellFormed,
     [WellFormed EXCEPT !.id = {}],
     [WellFormed EXCEPT !.name = {}],
     [WellFormed EXCEPT !.goal = {}],
     [WellFormed EXCEPT !.goal = {[type |-> {}]}],
     [WellFormed EXCEPT !.fixedObjects = {}],
     [WellFormed EXCEPT !.fixedObjects = {"string"}],
     [WellFormed EXCEPT !.availableParts = {}],
     [WellFormed EXCEPT !.availableParts = {"number"}],
     [WellFormed EXCEPT !.availableParts = {"null"}]}

\* What fetch answers: "fail" (the request fails or resp.ok is false) or the
\* data of the file.
Responses == {<<"fail">>} \cup {<<"ok", data>> : data \in LevelFiles}

\* JavaScript's typeof on a value of the given sort.
typeof(sort) == IF sort \in {"object", "array", "null"} THEN "object" ELSE sort

\* _validate(data): TRUE when it returns, FALSE when it throws.
_validate(data) ==
    /\ \A field \in {"id", "name", "goal", "fixedObjects", "availableParts"} : data[field] # {}
    /\ The(data.goal).type # {}
    /\ The(data.fixedObjects) = "array"
    /\ typeof(The(data.availableParts)) = "object"

Delivered(data) == [op |-> "emit:level:loaded", arg |-> 0, data |-> data]

cacheSet(cache, id, data) ==
    [k \in DOMAIN cache \cup {id} |-> IF k = id THEN data ELSE cache[k]]

\* loadLevel(id): a cached level becomes the current one and is emitted; else
\* the file is fetched and validated, and cached, made current and emitted
\* when the validation passes.
LoadLevel(id, resp) ==
    /\ IF id \in DOMAIN levelCache
       THEN /\ currentLevel' = {levelCache[id]}
            /\ calls' = <<Call("loadLevel", 0), Delivered(levelCache[id])>>
            /\ UNCHANGED levelCache
       ELSE IF resp[1] = "ok" /\ _validate(resp[2])
       THEN /\ levelCache' = cacheSet(levelCache, id, resp[2])
            /\ currentLevel' = {resp[2]}
            /\ calls' = <<Call("loadLevel", 0), Call("fetch", 0), Delivered(resp[2])>>
       ELSE /\ calls' = <<Call("loadLevel", 0), Call("fetch", 0), Call("console.error", 0),
                          Call("throw", 0)>>
            /\ UNCHANGED managerVars
    /\ UNCHANGED <<loopVars, worldVars, ghostVars, catalogVars, boardVars, pageVars, twinVars, contactVars, gadgetVars, modeVars>>

\* getLevelList(): every level of the order that is not cached is fetched,
\* and cached when the fetch succeeds.
GetLevelList(resps) ==
    /\ levelCache' = [id \in DOMAIN levelCache \cup {k \in LevelIds : resps[k][1] = "ok"} |->
                          IF id \in DOMAIN levelCache THEN levelCache[id] ELSE resps[id][2]]
    /\ calls' = <<Call("getLevelList", 0)>>
    /\ UNCHANGED <<loopVars, worldVars, ghostVars, catalogVars, boardVars, pageVars, twinVars, contactVars, gadgetVars, modeVars, currentLevel>>

ManagerInit ==
    /\ Constructed
    /\ physics = constructor
    /\ Started

ManagerNext ==
    \/ \E id \in LevelIds, resp \in Responses : LoadLevel(id, resp)
    \/ \E resps \in [LevelIds -> Responses] : GetLevelList(resps)

ManagerSpec == ManagerInit /\ [][ManagerNext]_vars

\* ------------------------------------------------------ the play/reset cycle
\* setMode(newMode) seen from the board: the mode:changed handler of the
\* DragDropManager enables editing in EDITING and SANDBOX and, leaving them,
\* clears the selection and stops the drag.
setMode(d, newMode) ==
    IF newMode \in {"EDITING", "SANDBOX"} THEN d
    ELSE [_selectObject(d, {}) EXCEPT
             !.dragging = FALSE, !.log = @ \o <<Call("emit:drag:ghost-clear", 0)>>]

\* The calls of physicsEngine.addObject for the objects of the board.
addObjectCalls(objects) == [i \in 1..Len(objects) |-> Call("physics.addObject", objects[i].id)]

\* The controls:play handler. A first play (from EDITING or SANDBOX) saves the
\* serialized board and hands the objects to the World; the calls on the
\* World and the loop are logged.
ControlsPlay ==
    /\ IF mode \in {"EDITING", "PAUSED", "SANDBOX"}
       THEN /\ savedPlacedSnapshot' =
                  IF mode = "PAUSED" THEN savedPlacedSnapshot
                  ELSE [i \in 1..Len(placedObjects) |-> Serialize(placedObjects[i])]
            /\ mode' = "PLAYING"
            /\ enabled' = FALSE
            /\ Commit([setMode(Manager, "PLAYING") EXCEPT !.log =
                          (IF mode = "PAUSED" THEN <<>>
                           ELSE <<Call("physics.clear", 0)>> \o addObjectCalls(placedObjects))
                          \o <<Call("renderer.stopLoop", 0), Call("gameLoop.play", 0)>> \o @],
                      "controls:play", 0)
       ELSE /\ Commit(Manager, "controls:play", 0)
            /\ UNCHANGED <<modeVars, enabled>>
    /\ UNCHANGED <<loopVars, worldVars, ghostVars, managerVars, pageVars, twinVars, contactVars,
                   bucket, spring, gears, ui, bus, onBoard,
                   registry, made, subject, levelData, nextId, everMade>>

ControlsPause ==
    /\ IF mode = "PLAYING"
       THEN /\ mode' = "PAUSED"
            /\ enabled' = FALSE
            /\ Commit([setMode(Manager, "PAUSED") EXCEPT !.log =
                          <<Call("gameLoop.pause", 0), Call("renderer.startLoop", 0)>> \o @],
                      "controls:pause", 0)
       ELSE /\ Commit(Manager, "controls:pause", 0)
            /\ UNCHANGED <<mode, enabled>>
    /\ UNCHANGED <<loopVars, worldVars, ghostVars, managerVars, pageVars, twinVars, contactVars,
                   bucket, spring, gears, ui, bus, onBoard,
                   registry, made, subject, levelData, nextId, everMade, savedPlacedSnapshot>>

\* clearPlacedObjects: dispose and drop the objects that are not fixed.
clearPlacedObjects(d) ==
    _selectObject([d EXCEPT !.objects = SelectSeq(@, LAMBDA o : o.isFixed)], {})

\* The controls:reset handler: gameLoop.reset(), then _resetLevel(), which
\* sets the current level up again or, without a level, clears the objects
\* that are not fixed.
ControlsReset ==
    /\ currentLevel # {} => nextId + Len(Known(registry, levelData)) <= MaxId + 1
    /\ IF mode \in {"PLAYING", "PAUSED", "WON"}
       THEN IF currentLevel # {}
            THEN /\ mode' = "EDITING"
                 /\ enabled' = TRUE
                 /\ savedPlacedSnapshot' = <<>>
                 /\ nextId' = nextId + Len(Known(registry, levelData))
                 /\ everMade' = everMade \o madeFixed(registry, levelData, nextId)
                 /\ Commit([Manager EXCEPT
                               !.objects = createFixed(registry, levelData, nextId),
                               !.log = <<Call("gameLoop.reset", 0), Call("renderer.startLoop", 0),
                                         Call("physics.clear", 0), Call("renderer.setObjects", 0)>>],
                           "controls:reset", 0)
            ELSE /\ mode' = "SANDBOX"
                 /\ enabled' = TRUE
                 /\ Commit([clearPlacedObjects(Manager) EXCEPT !.log =
                                <<Call("gameLoop.reset", 0), Call("renderer.startLoop", 0)>> \o @],
                           "controls:reset", 0)
                 /\ UNCHANGED <<savedPlacedSnapshot, nextId, everMade>>
       ELSE /\ Commit(Manager, "controls:reset", 0)
            /\ UNCHANGED <<modeVars, enabled, nextId, everMade>>
    /\ UNCHANGED <<loopVars, worldVars, ghostVars, managerVars, pageVars, twinVars, contactVars,
                   bucket, spring, gears, ui, bus, onBoard,
                   registry, made, subject, levelData>>

\* The levels of the cycle: one fixed candle in any cell.
CycleLevels ==
    {<<[type |-> "candle", x |-> a, y |-> 0, angle |-> {}, options |-> NoOptions, id |-> {"goal"}]>> :
        a \in Cells}

\* The application in its editing mode: after a level was chosen and set up
\* (EDITING), or after the sandbox button (SANDBOX, an empty board, no level).
CycleInit ==
    /\ Constructed
    /\ physics = constructor
    /\ registry = registerAllObjects
    /\ made = NoResult
    /\ subject = <<>>
    /\ levelCache = [id \in {} |-> 0]
    /\ canvas = InitialSize
    /\ twins = <<>>
    /\ parts = <<>>
    /\ edited = <<>>
    /\ GadgetIdle({})
    /\ savedPlacedSnapshot = <<>>
    /\ \/ /\ mode = "EDITING"
          /\ currentLevel = {WellFormed}
          /\ levelData \in CycleLevels
       \/ /\ mode = "SANDBOX"
          /\ currentLevel = {}
          /\ levelData = <<>>
    /\ placedObjects = createFixed(registry, levelData, 1)
    /\ everMade = madeFixed(registry, levelData, 1)
    /\ nextId = Len(placedObjects) + 1
    /\ selectedObject = {}
    /\ dragging = FALSE
    /\ dragType = "null"
    /\ dragObjType = {}
    /\ dragObject = {}
    /\ enabled = TRUE

CycleNext ==
    \/ \E type \in ToolboxTypes : ToolboxDragStart(type)
    \/ \E button \in {0, 2}, x \in Cells, handle \in Handles : MouseDown(button, x, 0, handle)
    \/ \E x \in Cells, angle \in Angles : MouseMove(x, 0, angle)
    \/ \E x \in Cells, remaining \in {0, 1} : MouseUp(x, 0, remaining)
    \/ ControlsPlay
    \/ ControlsPause
    \/ ControlsReset

CycleSpec == CycleInit /\ [][CycleNext]_vars

\* ---------------------------------------------------------------- contacts
\* The objects of a play session: two balloons, a rope, a candle, scissors and
\* a ball. emitted counts the notifications the bus carried with the object
\* as payload (balloon:popped, rope:severed).
PartTypes == <<"balloon", "balloon", "rope", "candle", "scissors", "ball">>

\* new Balloon: _popped = false; new Rope: _severed = false.
Part_new(type) == [type |-> type, popped |-> FALSE, severed |-> FALSE, emitted |-> 0]

\* Balloon.pop()
Balloon_pop(b) ==
    IF b.popped THEN b ELSE [b EXCEPT !.popped = TRUE, !.emitted = @ + 1]

\* Balloon.onCollision(other, pair)
Balloon_onCollision_any(b, other) ==
    IF b.popped THEN b ELSE Balloon_pop(b)

Balloon_onCollision(b, other) ==
    IF b.popped THEN b
    ELSE IF other.type = "scissors" \/ other.type = "candle" THEN Balloon_pop(b)
    ELSE b

\* Rope.sever()
Rope_sever(r) ==
    IF r.severed THEN r ELSE [r EXCEPT !.severed = TRUE, !.emitted = @ + 1]

\* Rope.onCollision(other, pair)
Rope_onCollision(r, other) ==
    IF other.type = "candle" /\ ~r.severed THEN Rope_sever(r) ELSE r

\* obj.onCollision(other, pair): the candle, the scissors and the ball keep
\* the default of BaseObject, which does nothing.
Part_onCollision(obj, other) ==
    CASE obj.type = "balloon" -> Balloon_onCollision(obj, other)
      [] obj.type = "rope" -> Rope_onCollision(obj, other)
      [] OTHER -> obj

\* The collisionStart listener on one pair whose bodies belong to the objects
\* a and b: a.onCollision(b), then b.onCollision(a), then physics:collision.
\* The log names the notifications the two hooks emitted.
DispatchContact(a, b) ==
    /\ a # b
    /\ parts[a].emitted <= MaxContacts /\ parts[b].emitted <= MaxContacts
    /\ LET objA == Part_onCollision(parts[a], parts[b])
           objB == Part_onCollision(parts[b], objA)
       IN /\ parts' = [parts EXCEPT ![a] = objA, ![b] = objB]
          /\ calls' = <<[op |-> "collisionStart", arg |-> a, first |-> b]>>
                \o (IF objA.emitted # parts[a].emitted
                    THEN <<[op |-> "emit:" \o objA.type, arg |-> a, first |-> 0]>> ELSE <<>>)
                \o (IF objB.emitted # parts[b].emitted
                    THEN <<[op |-> "emit:" \o objB.type, arg |-> b, first |-> 0]>> ELSE <<>>)
                \o <<[op |-> "emit:physics:collision", arg |-> a, first |-> b]>>
    /\ UNCHANGED <<loopVars, worldVars, ghostVars, catalogVars, boardVars, managerVars,
                   pageVars, twinVars, modeVars, gadgetVars, edited>>

ContactInit ==
    /\ Constructed
    /\ physics = constructor
    /\ registry = registerAllObjects
    /\ CatalogIdle
    /\ BoardIdle
    /\ levelCache = [id \in {} |-> 0]
    /\ currentLevel = {}
    /\ canvas = InitialSize
    /\ twins = <<>>
    /\ mode = "PLAYING"
    /\ savedPlacedSnapshot = <<>>
    /\ edited = <<>>
    /\ GadgetIdle({})
    /\ parts = [i \in 1..Len(PartTypes) |-> Part_new(PartTypes[i])]

ContactNext == \E a, b \in 1..Len(PartTypes) : DispatchContact(a, b)

ContactSpec == ContactInit /\ [][ContactNext]_vars

\* ------------------------------------------------------------ edit-mode pose
\* Lengths are in twelfths of a pixel, the unit in which the centres of a
\* rope's six segments are whole numbers.
px(n) == 12 * n

Body_at(x, y, angle) == [x |-> x, y |-> y, angle |-> angle]

\* Body.setPosition, Body.translate, Body.setAngle
Body_setPosition(body, x, y) == [body EXCEPT !.x = x, !.y = y]

Body_translate(body, dx, dy) == [body EXCEPT !.x = @ + dx, !.y = @ + dy]

Body_setAngle(body, angle) == [body EXCEPT !.angle = angle]

EditKinds == {"scissors", "spring", "candle", "pulley", "rope", "balloon"}

\* The bodies the constructor of a kind builds for new Kind(x, y, options):
\* scissors, spring and balloon build theirs at the angle of the options, the
\* candle, the pulley (ropeLength 150) and the rope (length 100, straight
\* down: the anchor, then six segments) build theirs unrotated.
builtBodies(type, x, y, angle) ==
    CASE type = "scissors" -> <<Body_at(x, y, angle)>>
      [] type = "spring" -> <<Body_at(x, y + px(15), angle), Body_at(x, y - px(15), angle)>>
      [] type = "candle" -> <<Body_at(x, y, 0), Body_at(x, y - px(25), 0)>>
      [] type = "pulley" ->
            <<Body_at(x, y, 0), Body_at(x - px(60), y + (px(150) \div 4), 0),
              Body_at(x + px(60), y + (px(150) \div 4), 0)>>
      [] type = "rope" ->
            <<Body_at(x, y, 0)>> \o [i \in 1..6 |-> Body_at(x, y + 100 * (2 * (i - 1) + 1), 0)]
      [] OTHER -> <<Body_at(x, y, 0)>>

\* new Kind(x, y, options) of the kinds that carry bodies here.
Entity_new(type, x, y, angle) ==
    [type |-> type, x |-> x, y |-> y, angle |-> angle, popped |-> FALSE,
     body |-> builtBodies(type, x, y, angle)]

\* get bodies(): the balloon owns no body once popped.
ownedBodies(e) == IF e.type = "balloon" /\ e.popped THEN <<>> ELSE e.body

\* setPosition(x, y) of each kind: the fields by BaseObject.setPosition, then
\* the bodies as the kind moves them.
Entity_setPosition(e, x, y) ==
    LET dx == x - e.x
        dy == y - e.y
        moved == [e EXCEPT !.x = x, !.y = y]
    IN CASE e.type = "scissors" ->
                [moved EXCEPT !.body[1] = Body_setPosition(@, x, y)]
         [] e.type = "spring" ->
                [moved EXCEPT !.body[1] = Body_setPosition(@, x, y + px(15)),
                              !.body[2] = Body_setPosition(@, x, y - px(15))]
         [] e.type = "candle" ->
                [moved EXCEPT !.body[1] = Body_setPosition(@, x, y),
                              !.body[2] = Body_setPosition(@, x, y - px(25))]
         [] e.type = "pulley" ->
                [moved EXCEPT !.body[1] = Body_setPosition(@, x, y),
                              !.body[2] = Body_translate(@, dx, dy),
                              !.body[3] = Body_translate(@, dx, dy)]
         [] e.type = "rope" ->
                [moved EXCEPT !.body = [i \in 1..Len(@) |->
                    IF i = 1 THEN Body_setPosition(@[i], x, y) ELSE Body_translate(@[i], dx, dy)]]
         [] OTHER ->
                IF e.popped THEN moved ELSE [moved EXCEPT !.body[1] = Body_setPosition(@, x, y)]

\* setAngle(angle) of each kind. The candle sets the field to 0; the pulley
\* and the rope do not override BaseObject.setAngle, which writes the field.
Entity_setAngle(e, angle) ==
    LET turned == [e EXCEPT !.angle = angle]
    IN CASE e.type = "scissors" ->
                [turned EXCEPT !.body[1] = Body_setAngle(@, angle)]
         [] e.type = "spring" ->
                [turned EXCEPT !.body[1] = Body_setAngle(@, angle),
                               !.body[2] = Body_setAngle(@, angle)]
         [] e.type = "candle" -> [e EXCEPT !.angle = 0]
         [] e.type \in {"pulley", "rope"} -> turned
         [] OTHER ->
                IF e.popped THEN turned ELSE [turned EXCEPT !.body[1] = Body_setAngle(@, angle)]

poseFrame ==
    <<loopVars, worldVars, ghostVars, catalogVars, boardVars, managerVars, pageVars,
      twinVars, modeVars, gadgetVars, parts>>

\* The editor moves the object (a move drag, the ghost of a toolbox drag).
EditSetPosition(x, y) ==
    /\ edited' = Entity_setPosition(edited, x, y)
    /\ calls' = <<[op |-> "setPosition", arg |-> x, first |-> y]>>
    /\ UNCHANGED poseFrame

\* The editor turns the object (a rotate drag).
EditSetAngle(angle) ==
    /\ edited' = Entity_setAngle(edited, angle)
    /\ calls' = <<[op |-> "setAngle", arg |-> angle, first |-> 0]>>
    /\ UNCHANGED poseFrame

\* An object as the board creates it: objectRegistry.create(type, x, y).
PoseInit ==
    /\ Constructed
    /\ physics = constructor
    /\ registry = registerAllObjects
    /\ CatalogIdle
    /\ BoardIdle
    /\ levelCache = [id \in {} |-> 0]
    /\ currentLevel = {}
    /\ canvas = InitialSize
    /\ twins = <<>>
    /\ mode = "EDITING"
    /\ savedPlacedSnapshot = <<>>
    /\ parts = <<>>
    /\ GadgetIdle({})
    /\ \E type \in EditKinds, x \in Cells, y \in Cells : edited = Entity_new(type, x, y, 0)

PoseNext ==
    \/ \E x \in Cells, y \in Cells : EditSetPosition(x, y)
    \/ \E angle \in Angles : EditSetAngle(angle)

PoseSpec == PoseInit /\ [][PoseNext]_vars

\* --------------------------------------------------------------- inventory
\* The allotments of the levels: availableParts.
Allotments == {[t \in {"ball"} |-> n] : n \in 1..MaxRecords}

\* The number of objects of a kind the player has on the board.
placedCount(objects, type) ==
    Cardinality({i \in 1..Len(objects) : objects[i].type = type /\ ~objects[i].isFixed})

\* A mousedown on a toolbox item starts a drag when the toolbox is enabled
\* and has a part of the kind left.
ToolboxMouseDown(type) ==
    /\ mode \in {"EDITING", "SANDBOX"}
    /\ getCount(inventory, mode = "SANDBOX", type) > 0
    /\ ToolboxDragStart(type)

\* mouseup, with the count _placeObject reads from the toolbox.
Drop(x) ==
    MouseUp(x, 0, IF dragObjType = {} THEN 0
                  ELSE getCount(inventory, mode = "SANDBOX", The(dragObjType)))

\* A level session in EDITING: the level was loaded (level:loaded set the
\* board up and handed availableParts to the toolbox), then setMode(EDITING).
InventoryInit ==
    /\ Constructed
    /\ physics = constructor
    /\ registry = registerAllObjects
    /\ made = NoResult
    /\ subject = <<>>
    /\ levelCache = [id \in {} |-> 0]
    /\ canvas = InitialSize
    /\ twins = <<>>
    /\ parts = <<>>
    /\ edited = <<>>
    /\ GadgetIdle({"inventory"})
    /\ savedPlacedSnapshot = <<>>
    /\ mode = "EDITING"
    /\ currentLevel = {WellFormed}
    /\ levelData \in CycleLevels \cup {<<>>}
    /\ inventory \in Allotments
    /\ placedObjects = createFixed(registry, levelData, 1)
    /\ everMade = madeFixed(registry, levelData, 1)
    /\ nextId = Len(placedObjects) + 1
    /\ selectedObject = {}
    /\ dragging = FALSE
    /\ dragType = "null"
    /\ dragObjType = {}
    /\ dragObject = {}
    /\ enabled = TRUE

InventoryNext ==
    \/ \E type \in ToolboxTypes : ToolboxMouseDown(type)
    \/ \E x \in Cells : Drop(x)
    \/ \E x \in Cells : ContextMenu(x, 0)
    \/ \E button \in {0, 2}, x \in Cells, handle \in Handles : MouseDown(button, x, 0, handle)
    \/ ControlsPlay
    \/ ControlsPause
    \/ ControlsReset

InventorySpec == InventoryInit /\ [][InventoryNext]_vars

\* ------------------------------------------------------------------ bucket
\* The bodies of a bucket.
BucketBodies == {"leftWall", "rightWall", "floor", "sensor"}

\* The objects of a session that may touch the bucket: object i was
\* constructed with the id i, which an import in the editor may have replaced
\* by the id of its record.
Droppables ==
    {f \in [1..MaxId -> [type : {"ball", "balloon"},
                         id : {NumberId(i) : i \in 1..MaxId} \cup {StringId("goal")}]] :
        \A i \in 1..MaxId : f[i].id \in {NumberId(i), StringId("goal")}}

\* new Bucket(x, y, options): _catchType = options.catchType || null, an
\* empty _caught. emitted is what the bus carried as bucket:caught; touched is
\* the set of objects whose contact with the sensor was dispatched while
\* their kind passed the filter.
Bucket_new(catchType, objects) ==
    [catchType |-> catchType, caught |-> {}, emitted |-> <<>>, objects |-> objects, touched |-> {}]

\* The kind passes the catch filter.
catches(b, type) == b.catchType = {} \/ type = The(b.catchType)

\* Bucket.onCollision(other, pair), with body the body of the bucket in the pair.
Bucket_onCollision(b, o, body) ==
    IF body # "sensor" THEN b
    ELSE IF ~catches(b, b.objects[o].type) THEN b
    ELSE IF b.objects[o].id \notin b.caught
         THEN [b EXCEPT !.caught = @ \cup {b.objects[o].id},
                        !.emitted = Append(@, [object |-> o,
                                               totalCaught |-> Cardinality(b.caught \cup {b.objects[o].id})])]
         ELSE b

bucketFrame ==
    <<loopVars, worldVars, ghostVars, catalogVars, boardVars, managerVars, pageVars,
      twinVars, modeVars, contactVars, spring, gears, inventory, ui, bus, onBoard>>

\* The listener dispatches a contact between a body of the bucket and the
\* object o: the bucket's hook runs (the hook of a ball or a balloon leaves
\* the bucket alone).
BucketContact(o, body) ==
    /\ bucket' = [Bucket_onCollision(bucket, o, body) EXCEPT
                     !.touched = IF body = "sensor" /\ catches(bucket, bucket.objects[o].type)
                                 THEN @ \cup {o} ELSE @]
    /\ calls' = <<[op |-> "collisionStart", arg |-> o, body |-> body]>>
    /\ UNCHANGED bucketFrame

BucketInit ==
    /\ Constructed
    /\ physics = constructor
    /\ AppIdle("PLAYING", {"bucket"})
    /\ \E catchType \in {{}, {"ball"}}, objects \in Droppables :
          bucket = Bucket_new(catchType, objects)

BucketNext == \E o \in 1..MaxId, body \in BucketBodies : BucketContact(o, body)

BucketSpec == BucketInit /\ [][BucketNext]_vars

\* ------------------------------------------------------------------ spring
\* new Spring(x, y, options): _compression = 0, _triggered = false,
\* _cooldown = 0. Compression is in hundredths. launched and threw tell what
\* the last onBeforeUpdate did: it applied the launch force to the bodies on
\* the platform, it raised. since counts the hooks run since the spring was armed.
Spring_new ==
    [triggered |-> FALSE, compression |-> 0, cooldown |-> 0,
     launched |-> FALSE, threw |-> FALSE, since |-> 0]

\* Spring.onCollision(other, pair), with body the body of the spring in the pair.
Spring_onCollision(s, body) ==
    IF s.cooldown > 0 THEN s
    ELSE IF body = "platform" /\ ~s.triggered
         THEN [s EXCEPT !.triggered = TRUE, !.compression = 100, !.since = 0]
         ELSE s

\* What step hands the hook as its first argument, engine: the number dt
\* (obj.onBeforeUpdate(dt, this)). engine.world of a number is undefined.
EngineArgument == [sort |-> "number", world |-> {}]

\* Composite.allBodies(engine.world) raises on undefined.
allBodiesThrows(engine) == engine.world = {}

\* Spring.onBeforeUpdate(engine)
Spring_onBeforeUpdate(s, engine) ==
    LET cooled == [s EXCEPT !.cooldown = IF @ > 0 THEN @ - 1 ELSE @,
                            !.launched = FALSE, !.threw = FALSE,
                            !.since = IF s.triggered THEN @ + 1 ELSE 0]
    IN IF cooled.triggered /\ cooled.compression > 0
       THEN IF cooled.compression - 8 <= 0
            THEN [cooled EXCEPT !.compression = 0, !.triggered = FALSE, !.cooldown = 30,
                                !.launched = ~allBodiesThrows(engine),
                                !.threw = allBodiesThrows(engine)]
            ELSE [cooled EXCEPT !.compression = @ - 8]
       ELSE cooled

springFrame ==
    <<loopVars, worldVars, ghostVars, catalogVars, boardVars, managerVars, pageVars,
      twinVars, modeVars, contactVars, bucket, gears, inventory, ui, bus, onBoard>>

\* The listener dispatches a contact of a body of the spring.
SpringContact(body) ==
    /\ spring' = Spring_onCollision(spring, body)
    /\ calls' = <<[op |-> "collisionStart", arg |-> 0, body |-> body]>>
    /\ UNCHANGED springFrame

\* step(dt) runs the spring's beforeStep hook.
SpringStep ==
    /\ spring' = Spring_onBeforeUpdate(spring, EngineArgument)
    /\ calls' = <<[op |-> "step", arg |-> NominalDt, body |-> "none"]>>
    /\ UNCHANGED springFrame

SpringInit ==
    /\ Constructed
    /\ physics = constructor
    /\ AppIdle("PLAYING", {"spring"})
    /\ spring = Spring_new

SpringNext ==
    \/ \E body \in {"platform", "base"} : SpringContact(body)
    \/ SpringStep

SpringSpec == SpringInit /\ [][SpringNext]_vars

\* ------------------------------------------------------------------- gears
\* Math.sign, Math.abs
sign(x) == IF x > 0 THEN 1 ELSE IF x < 0 THEN -1 ELSE 0

abs(x) == IF x < 0 THEN -x ELSE x

\* new Gear(x, y, options): _angularSpeed = options.angularSpeed ?? 0.03, in
\* thousandths; the speeds the options may carry.
Speeds == {30 * k : k \in -(MaxPos + 1)..(MaxPos + 1)}

GearCount == NumEntities + 1

\* a.onCollision(b) for two gears: other._angularSpeed =
\* -Math.sign(other._angularSpeed) * Math.abs(this._angularSpeed).
Gear_onCollision(g, this, other) ==
    [g EXCEPT ![other] = -sign(g[other]) * abs(g[this])]

gearFrame ==
    <<loopVars, worldVars, ghostVars, catalogVars, boardVars, managerVars, pageVars,
      twinVars, modeVars, contactVars, bucket, spring, inventory, ui, bus, onBoard>>

\* The listener on a pair of bodies of the gears a and b: a.onCollision(b),
\* then b.onCollision(a).
DispatchGears(a, b) ==
    /\ a # b
    /\ gears' = Gear_onCollision(Gear_onCollision(gears, a, b), b, a)
    /\ calls' = <<[op |-> "collisionStart", arg |-> a, first |-> b]>>
    /\ UNCHANGED gearFrame

GearInit ==
    /\ Constructed
    /\ physics = constructor
    /\ AppIdle("PLAYING", {"gears"})
    /\ gears \in [1..GearCount -> Speeds]

GearNext == \E a, b \in 1..GearCount : DispatchGears(a, b)

GearSpec == GearInit /\ [][GearNext]_vars

\* ------------------------------------------------------------- the session
\* The page around the run-loop, with an empty board: the mode, the level,
\* the renderer's own animation loop, the level select, the goal overlay and
\* the speed the play controls show. The chains of the renderer's loop are
\* counted; _rafId, when it is not null, is the request of one chain that
\* is still scheduled. origin is the mode the last first play (a play that is
\* not a resume) was pressed in.
Renderer_new == [rafId |-> {}, loops |-> 0]

\* startLoop(): a new chain of frame requests, whatever _rafId holds.
Renderer_startLoop(r) == [rafId |-> {"request"}, loops |-> r.loops + 1]

\* stopLoop(): cancels the request _rafId holds, if any.
Renderer_stopLoop(r) ==
    IF r.rafId # {} THEN [rafId |-> {}, loops |-> r.loops - 1] ELSE r

\* setMode(newMode) and its mode:changed subscribers: the DragDropManager is
\* enabled in the editing modes, the level select shows in MENU.
switchMode(newMode) ==
    /\ mode' = newMode
    /\ enabled' = (newMode \in {"EDITING", "SANDBOX"})

\* The mode _resetLevel() leaves, called in mode previousMode.
_resetLevel(previousMode) ==
    IF currentLevel # {}
    THEN IF previousMode \in {"WON", "PLAYING", "PAUSED"}
         THEN IF ui.currentLevelId # {} THEN "EDITING" ELSE "SANDBOX"
         ELSE previousMode
    ELSE "SANDBOX"

sessionBoard ==
    <<catalogVars, levelCache, pageVars, twinVars, savedPlacedSnapshot, contactVars,
      bucket, spring, gears, inventory, bus, onBoard, levelData, placedObjects, selectedObject,
      dragging, dragType, dragObjType, dragObject>>

loopFrame == <<loopVars, worldVars, ghostVars>>

\* The sandbox button of the level select.
SandboxButton ==
    /\ ui.select
    /\ switchMode("SANDBOX")
    /\ ui' = [ui EXCEPT !.select = FALSE]
    /\ calls' = <<Call("sandbox", 0), Call("emit:mode:changed", 0)>>
    /\ UNCHANGED <<sessionBoard, loopFrame, currentLevel>>

\* A level card of the level select: loadLevel, then EDITING when the load
\* did not raise. The level:loaded handler keeps the id of the level.
LevelCard(ok) ==
    /\ ui.select
    /\ IF ok
       THEN /\ currentLevel' = {WellFormed}
            /\ switchMode("EDITING")
            /\ ui' = [ui EXCEPT !.select = FALSE, !.currentLevelId = WellFormed.id]
            /\ calls' = <<Call("card", 0), Call("loadLevel", 0), Call("emit:mode:changed", 0)>>
       ELSE /\ ui' = [ui EXCEPT !.select = FALSE]
            /\ calls' = <<Call("card", 0), Call("loadLevel", 0), Call("throw", 0)>>
            /\ UNCHANGED <<currentLevel, mode, enabled>>
    /\ UNCHANGED <<sessionBoard, loopFrame>>

\* controls:play, from the play button, the space bar or the editor's test
\* button: the renderer's loop is stopped and the run-loop plays.
SessionPlay ==
    /\ IF mode \in {"EDITING", "PAUSED", "SANDBOX"}
       THEN /\ ui' = [ui EXCEPT !.renderer = Renderer_stopLoop(@),
                                !.origin = IF mode = "PAUSED" THEN @ ELSE mode]
            /\ GameLoop_play
            /\ switchMode("PLAYING")
       ELSE /\ calls' = <<Call("controls:play", 0)>>
            /\ UNCHANGED <<loopFrame, mode, enabled, ui>>
    /\ UNCHANGED <<sessionBoard, currentLevel>>

\* controls:pause.
SessionPause ==
    /\ IF mode = "PLAYING"
       THEN /\ GameLoop_pause
            /\ ui' = [ui EXCEPT !.renderer = Renderer_startLoop(@)]
            /\ switchMode("PAUSED")
       ELSE /\ calls' = <<Call("controls:pause", 0)>>
            /\ UNCHANGED <<loopFrame, mode, enabled, ui>>
    /\ UNCHANGED <<sessionBoard, currentLevel>>

\* controls:reset: gameLoop.reset(), renderer.startLoop(), _resetLevel().
SessionReset ==
    /\ IF mode \in {"PLAYING", "PAUSED", "WON"}
       THEN /\ GameLoop_reset
            /\ ui' = [ui EXCEPT !.renderer = Renderer_startLoop(@)]
            /\ switchMode(_resetLevel(mode))
       ELSE /\ calls' = <<Call("controls:reset", 0)>>
            /\ UNCHANGED <<loopFrame, mode, enabled, ui>>
    /\ UNCHANGED <<sessionBoard, currentLevel>>

\* goal:reached or goal:failed arrives on the bus during play: the goal
\* overlay shows its buttons.
GoalEvent ==
    /\ mode = "PLAYING"
    /\ ~ui.overlay
    /\ ui' = [ui EXCEPT !.overlay = TRUE]
    /\ calls' = <<Call("goal", 0)>>
    /\ UNCHANGED <<sessionBoard, loopFrame, currentLevel, mode, enabled>>

\* The retry button of the goal overlay: hide(), overlay:retry, _resetLevel().
OverlayRetry ==
    /\ ui.overlay
    /\ ui' = [ui EXCEPT !.overlay = FALSE]
    /\ switchMode(_resetLevel(mode))
    /\ calls' = <<Call("overlay:retry", 0)>>
    /\ UNCHANGED <<sessionBoard, loopFrame, currentLevel>>

\* overlay:menu, from the menu button of the goal overlay (which hides the
\* overlay) or from the editor panel, which shows in SANDBOX.
OverlayMenu ==
    /\ ui.overlay \/ mode = "SANDBOX"
    /\ ui' = [ui EXCEPT !.overlay = FALSE, !.select = TRUE]
    /\ switchMode("MENU")
    /\ calls' = <<Call("overlay:menu", 0), Call("emit:mode:changed", 0)>>
    /\ UNCHANGED <<sessionBoard, loopFrame, currentLevel>>

\* The next-level button of the goal overlay: hide(), loadLevel, then EDITING
\* when the load did not raise.
OverlayNextLevel(ok) ==
    /\ ui.overlay
    /\ currentLevel # {}
    /\ IF ok
       THEN /\ currentLevel' = {WellFormed}
            /\ switchMode("EDITING")
            /\ ui' = [ui EXCEPT !.overlay = FALSE, !.currentLevelId = WellFormed.id]
            /\ calls' = <<Call("overlay:next-level", 0), Call("loadLevel", 0),
                          Call("emit:mode:changed", 0)>>
       ELSE /\ ui' = [ui EXCEPT !.overlay = FALSE]
            /\ calls' = <<Call("overlay:next-level", 0), Call("loadLevel", 0), Call("console.error", 0)>>
            /\ UNCHANGED <<currentLevel, mode, enabled>>
    /\ UNCHANGED <<sessionBoard, loopFrame>>

\* The speed PlayControls._onSpeed() moves to.
shownSpeed(s) == IF s = 1 THEN 2 ELSE 1

\* The speed button: the speed shown toggles and controls:speed is emitted;
\* main.js subscribes nothing to it. The button is disabled in MENU and WON.
SpeedButton ==
    /\ mode \notin {"MENU", "WON"}
    /\ ui' = [ui EXCEPT !.speed = shownSpeed(@)]
    /\ calls' = <<Call("emit:controls:speed", ui'.speed)>>
    /\ UNCHANGED <<sessionBoard, loopFrame, currentLevel, mode, enabled>>

\* The host runs a frame request of one chain of the renderer's loop:
\* render(), then the next request, kept in _rafId.
RenderFrame ==
    /\ ui.renderer.loops > 0
    /\ ui' = [ui EXCEPT !.renderer.rafId = {"request"}]
    /\ calls' = <<Call("renderer.render", 0)>>
    /\ UNCHANGED <<sessionBoard, loopFrame, currentLevel, mode, enabled>>

\* init(): the renderer's loop started, the level select shown in MENU.
SessionInit ==
    /\ Constructed
    /\ physics = constructor
    /\ AppIdle("MENU", {"ui"})
    /\ ui = [renderer |-> Renderer_startLoop(Renderer_new), overlay |-> FALSE, select |-> TRUE,
             currentLevelId |-> {}, speed |-> 1, origin |-> "MENU"]

SessionNext ==
    \/ SandboxButton
    \/ \E ok \in BOOLEAN : LevelCard(ok)
    \/ SessionPlay
    \/ SessionPause
    \/ SessionReset
    \/ GoalEvent
    \/ OverlayRetry
    \/ OverlayMenu
    \/ \E ok \in BOOLEAN : OverlayNextLevel(ok)
    \/ SpeedButton
    \/ RenderFrame
    \/ frame

SessionSpec == SessionInit /\ [][SessionNext]_vars

\* ---------------------------------------------------------------- EventBus
\* The callbacks the subscribers are drawn from; the second one throws.
Callbacks == {1, 2}

Throws(callback) == callback = 2

Events == {"mode:changed", "loop:frame"}

\* A member of the Set of an event: the callback given to on(), or the
\* wrapper once() built around it. Each call of once() builds a new function,
\* told apart by a number; the number of a callback given to on() is 0.
Listener(callback, wrapper) == [callback |-> callback, wrapper |-> wrapper]

\* new EventBus(): no event has a Set.
EventBus_new == [e \in Events |-> <<>>]

\* on(event, callback): Set.add, which keeps the place of a member it holds.
on(listeners, event, l) ==
    IF l \in Range(listeners[event]) THEN listeners
    ELSE [listeners EXCEPT ![event] = Append(@, l)]

\* once(event, callback): on(event, wrapper) with a wrapper no Set holds.
once(listeners, event, callback) ==
    on(listeners, event,
       Listener(callback, CHOOSE k \in 1..(MaxRecords + 2) :
                   /\ Listener(callback, k) \notin Range(listeners[event])
                   /\ \A j \in 1..(k - 1) : Listener(callback, j) \in Range(listeners[event])))

\* off(event, callback): Set.delete; an empty Set is dropped from the Map.
off(listeners, event, l) ==
    [listeners EXCEPT ![event] = SelectSeq(@, LAMBDA m : m # l)]

\* emit(event, data): the for-of over the Set of the event, from its i-th
\* member on. A wrapper deletes itself from the Set before it calls its
\* callback, and the iteration goes on with the member after it. A callback
\* that throws is caught and logged. The result is the Set left, the
\* listeners invoked in order, the errors logged and whether an exception
\* left emit.
RECURSIVE emitFrom_uncaught(_, _, _, _)
emitFrom_uncaught(set, i, invoked, errors) ==
    IF i > Len(set)
    THEN [set |-> set, invoked |-> invoked, errors |-> errors, propagated |-> FALSE]
    ELSE LET l == set[i]
             left == IF l.wrapper > 0 THEN SelectSeq(set, LAMBDA m : m # l) ELSE set
             next == IF l.wrapper > 0 THEN i ELSE i + 1
         IN IF Throws(l.callback)
            THEN [set |-> left, invoked |-> Append(invoked, l), errors |-> errors,
                  propagated |-> TRUE]
            ELSE emitFrom_uncaught(left, next, Append(invoked, l), errors)

RECURSIVE emitFrom(_, _, _, _)
emitFrom(set, i, invoked, errors) ==
    IF i > Len(set)
    THEN [set |-> set, invoked |-> invoked, errors |-> errors, propagated |-> FALSE]
    ELSE LET l == set[i]
             left == IF l.wrapper > 0 THEN SelectSeq(set, LAMBDA m : m # l) ELSE set
             next == IF l.wrapper > 0 THEN i ELSE i + 1
         IN emitFrom(left, next, Append(invoked, l),
                     IF Throws(l.callback) THEN errors + 1 ELSE errors)

busFrame ==
    <<loopVars, worldVars, ghostVars, catalogVars, boardVars, managerVars, pageVars,
      twinVars, modeVars, contactVars, bucket, spring, gears, inventory, ui, onBoard>>

\* The number of listeners the bus holds, over all events.
RECURSIVE subscribed(_)
subscribed(listeners) ==
    IF DOMAIN listeners = {} THEN 0
    ELSE LET e == CHOOSE x \in DOMAIN listeners : TRUE
         IN Len(listeners[e]) + subscribed([x \in DOMAIN listeners \ {e} |-> listeners[x]])

BusOn(event, callback) ==
    /\ subscribed(bus.listeners) <= MaxRecords
    /\ bus' = [bus EXCEPT !.listeners = on(@, event, Listener(callback, 0))]
    /\ calls' = <<[op |-> "on", arg |-> callback, event |-> event]>>
    /\ UNCHANGED busFrame

BusOnce(event, callback) ==
    /\ subscribed(bus.listeners) <= MaxRecords
    /\ bus' = [bus EXCEPT !.listeners = once(@, event, callback)]
    /\ calls' = <<[op |-> "once", arg |-> callback, event |-> event]>>
    /\ UNCHANGED busFrame

\* The unsubscribe function on() returned, or off(event, callback).
BusOff(event, callback) ==
    /\ bus' = [bus EXCEPT !.listeners = off(@, event, Listener(callback, 0))]
    /\ calls' = <<[op |-> "off", arg |-> callback, event |-> event]>>
    /\ UNCHANGED busFrame

BusEmit(event) ==
    LET done == emitFrom(bus.listeners[event], 1, <<>>, 0)
    IN /\ bus' = [listeners |-> [bus.listeners EXCEPT ![event] = done.set],
                  invoked |-> done.invoked,
                  errors |-> done.errors,
                  propagated |-> done.propagated]
       /\ calls' = <<[op |-> "emit", arg |-> 0, event |-> event]>>
       /\ UNCHANGED busFrame

BusInit ==
    /\ Constructed
    /\ physics = constructor
    /\ AppIdle("MENU", {"bus"})
    /\ bus = [listeners |-> EventBus_new, invoked |-> <<>>, errors |-> 0, propagated |-> FALSE]

BusNext ==
    \/ \E event \in Events, callback \in Callbacks : BusOn(event, callback)
    \/ \E event \in Events, callback \in Callbacks : BusOnce(event, callback)
    \/ \E event \in Events, callback \in Callbacks : BusOff(event, callback)
    \/ \E event \in Events : BusEmit(event)

BusSpec == BusInit /\ [][BusNext]_vars

\* ------------------------------------------------ the entities of a session
\* A session whose board holds entities of the World's universe: the player
\* places and deletes them while editing, play hands them to the World and
\* reset clears the board. The run-loop's own calls are logged.
placeFrame ==
    <<loopVars, ghostVars, catalogVars, boardVars, managerVars, pageVars, twinVars,
      savedPlacedSnapshot, contactVars, bucket, spring, gears, inventory, ui, bus>>

RECURSIVE addEach(_, _, _)
addEach(p, objs, pop) ==
    IF objs = <<>> THEN p
    ELSE addEach(addObject(p, Head(objs), pop), Tail(objs), pop)

\* _placeObject: a new object joins the board.
PlaceEntity(e) ==
    /\ mode \in {"EDITING", "SANDBOX"}
    /\ e \notin onBoard.ever
    /\ onBoard' = [board |-> Append(onBoard.board, e), ever |-> onBoard.ever \cup {e}]
    /\ calls' = <<Call("_placeObject", e), Call("emit:object:placed", e)>>
    /\ UNCHANGED <<placeFrame, worldVars, mode>>

\* _deleteSelected: the object leaves the board and is disposed; the World
\* is not asked to remove it.
DeleteEntity(e) ==
    /\ mode \in {"EDITING", "SANDBOX"}
    /\ e \in Range(onBoard.board)
    /\ onBoard' = [onBoard EXCEPT !.board = SelectSeq(@, LAMBDA o : o # e)]
    /\ disposed' = [disposed EXCEPT ![e] = TRUE]
    /\ calls' = <<Call("_deleteSelected", e), Call("emit:object:removed", e), Call("dispose", e)>>
    /\ UNCHANGED <<placeFrame, physics, popped, bodyPos, mode>>

\* controls:play: a first play clears the World (each tracked entity is
\* removed, then disposed) and adds the objects of the board.
PlayEntities ==
    /\ mode \in {"EDITING", "PAUSED", "SANDBOX"}
    /\ IF mode = "PAUSED"
       THEN /\ calls' = <<Call("controls:play", 0), Call("renderer.stopLoop", 0), Call("gameLoop.play", 0)>>
            /\ UNCHANGED <<physics, disposed>>
       ELSE /\ physics' = addEach(clear(physics, popped), onBoard.board, popped)
            /\ disposed' = [e \in Entities |-> disposed[e] \/ e \in Range(physics.objects)]
            /\ calls' = <<Call("controls:play", 0), Call("physics.clear", 0)>>
                        \o [i \in 1..Len(onBoard.board) |-> Call("physics.addObject", onBoard.board[i])]
                        \o <<Call("renderer.stopLoop", 0), Call("gameLoop.play", 0)>>
    /\ mode' = "PLAYING"
    /\ UNCHANGED <<placeFrame, popped, bodyPos, onBoard>>

\* controls:pause.
PauseEntities ==
    /\ mode = "PLAYING"
    /\ mode' = "PAUSED"
    /\ calls' = <<Call("controls:pause", 0), Call("gameLoop.pause", 0), Call("renderer.startLoop", 0)>>
    /\ UNCHANGED <<placeFrame, worldVars, onBoard>>

\* A frame of the run-loop during play: the World steps.
FrameEntities ==
    /\ mode = "PLAYING"
    /\ step(physics, NominalDt)
    /\ calls' = <<Call("_frame", 0), Call("step", NominalDt)>>
    /\ UNCHANGED <<placeFrame, physics, disposed, mode, onBoard>>

\* controls:reset: gameLoop.reset(), then _resetLevel(). With a level,
\* _setupLevel clears the World and empties the board; without one,
\* clearPlacedObjects disposes the objects of the board and drops them.
ResetEntities ==
    /\ mode \in {"PLAYING", "PAUSED", "WON"}
    /\ IF currentLevel # {}
       THEN /\ physics' = clear(physics, popped)
            /\ disposed' = [e \in Entities |-> disposed[e] \/ e \in Range(physics.objects)]
            /\ calls' = <<Call("controls:reset", 0), Call("gameLoop.reset", 0),
                          Call("renderer.startLoop", 0), Call("physics.clear", 0)>>
       ELSE /\ disposed' = [e \in Entities |-> disposed[e] \/ e \in Range(onBoard.board)]
            /\ calls' = <<Call("controls:reset", 0), Call("gameLoop.reset", 0),
                          Call("renderer.startLoop", 0), Call("clearPlacedObjects", 0)>>
            /\ UNCHANGED physics
    /\ onBoard' = [onBoard EXCEPT !.board = <<>>]
    /\ mode' = _resetLevel(mode)
    /\ UNCHANGED <<placeFrame, popped, bodyPos>>

\* An empty board in the editing mode of a level without fixed objects, or
\* in the sandbox.
EntitiesInit ==
    /\ Constructed
    /\ physics = constructor
    /\ registry = registerAllObjects
    /\ CatalogIdle
    /\ levelData = <<>>
    /\ placedObjects = <<>>
    /\ selectedObject = {}
    /\ dragging = FALSE
    /\ dragType = "null"
    /\ dragObjType = {}
    /\ dragObject = {}
    /\ enabled = TRUE
    /\ levelCache = [id \in {} |-> 0]
    /\ canvas = InitialSize
    /\ twins = <<>>
    /\ savedPlacedSnapshot = <<>>
    /\ parts = <<>>
    /\ edited = <<>>
    /\ GadgetIdle({"ui", "onBoard"})
    /\ onBoard = [board |-> <<>>, ever |-> {}]
    /\ \/ /\ mode = "EDITING"
          /\ currentLevel = {WellFormed}
          /\ ui = [renderer |-> Renderer_startLoop(Renderer_new), overlay |-> FALSE,
                   select |-> FALSE, currentLevelId |-> WellFormed.id, speed |-> 1, origin |-> "MENU"]
       \/ /\ mode = "SANDBOX"
          /\ currentLevel = {}
          /\ ui = [renderer |-> Renderer_startLoop(Renderer_new), overlay |-> FALSE,
                   select |-> FALSE, currentLevelId |-> {}, speed |-> 1, origin |-> "MENU"]

EntitiesNext ==
    \/ \E e \in Entities : PlaceEntity(e)
    \/ \E e \in Entities : DeleteEntity(e)
    \/ PlayEntities
    \/ PauseEntities
    \/ FrameEntities
    \/ ResetEntities

EntitiesSpec == EntitiesInit /\ [][EntitiesNext]_vars

\* ------------------------------------------------------------------ claims
Op(log) == log[1].op

ArgOf(log, op) == log[Index(log, op)].arg

\* The body states a snapshot holds, as <<body id, transform>> pairs.
Captured(snap) ==
    UNION {{<<snap.entries[i].bodyStates[j].id, snap.entries[i].bodyStates[j].pos>> :
                j \in 1..Len(snap.entries[i].bodyStates)} : i \in 1..Len(snap.entries)}

\* C1: the loop starts stopped; play() from stopped moves to running and calls
\* takeSnapshot exactly once; play() from paused moves to running, calls no
\* takeSnapshot and leaves the stored snapshot as it was; play() while running
\* changes nothing; takeSnapshot is called in no other step, and the stored
\* snapshot changes only on a start from stopped or on reset().
C1_PlayStep ==
    /\ (Op(calls') = "play" /\ state = STOPPED) =>
          /\ state' = RUNNING
          /\ Count(calls', "takeSnapshot") = 1
          /\ hasSnapshot(physics')
    /\ (Op(calls') = "play" /\ state = PAUSED) =>
          /\ state' = RUNNING
          /\ Count(calls', "takeSnapshot") = 0
          /\ physics'.snapshot = physics.snapshot
    /\ (Op(calls') = "play" /\ state = RUNNING) =>
          /\ UNCHANGED <<loopVars, worldVars>>
          /\ Len(calls') = 1
    /\ Count(calls', "takeSnapshot") > 0 => (state = STOPPED /\ state' = RUNNING)
    /\ physics'.snapshot # physics.snapshot =>
          ((state = STOPPED /\ state' = RUNNING) \/ Op(calls') = "reset")

C1_SnapshotOncePerStart ==
    /\ (Op(calls) = "constructor" => state = STOPPED)
    /\ [][C1_PlayStep]_vars

\* A resume: play() from paused after frames, the snapshot of the start kept.
C1_Witness ==
    /\ Op(calls) = "play"
    /\ fresh = "resume"
    /\ Count(calls, "takeSnapshot") = 0
    /\ hasSnapshot(physics)
    /\ stepped > 0

\* C2: when reset() has returned, the loop is stopped, the elapsed time is 0
\* and the World has no snapshot.
C2_ResetToIdle ==
    Op(calls) = "reset" => (state = STOPPED /\ elapsed = 0 /\ ~hasSnapshot(physics))

\* reset() called while running (a pending frame was cancelled), after frames.
C2_Witness ==
    /\ Op(calls) = "reset"
    /\ Count(calls, "cancelAnimationFrame") = 1
    /\ stepped > 0
    /\ state = STOPPED

\* C3: pause() from running moves to paused and keeps the elapsed time, the
\* speed and the snapshot; pause() in another state changes nothing.
C3_PauseStep ==
    Op(calls') = "pause" =>
        IF state = RUNNING
        THEN /\ state' = PAUSED
             /\ elapsed' = elapsed
             /\ speed' = speed
             /\ physics'.snapshot = physics.snapshot
        ELSE /\ UNCHANGED <<loopVars, worldVars>>
             /\ Len(calls') = 1

C3_PauseKeepsTime == [][C3_PauseStep]_vars

C3_Witness ==
    /\ Op(calls) = "pause"
    /\ state = PAUSED
    /\ elapsed > 0
    /\ speed = 2
    /\ hasSnapshot(physics)

\* C4: the speed is always 1 or 2; cycleSpeed() flips it, keeps the loop
\* state, the elapsed time and the snapshot, and leaves the solver's time
\* scale equal to the new speed.
C4_SpeedStep ==
    /\ speed' \in {1, 2}
    /\ Op(calls') = "cycleSpeed" =>
          /\ speed' # speed
          /\ state' = state
          /\ elapsed' = elapsed
          /\ physics'.snapshot = physics.snapshot
          /\ physics'.timeScale = speed'

C4_SpeedToggles == [][C4_SpeedStep]_vars

\* The speed flipped back to 1 while the loop runs.
C4_Witness ==
    /\ Op(calls) = "cycleSpeed"
    /\ speed = 1
    /\ physics.timeScale = 1
    /\ state = RUNNING
    /\ elapsed > 0

\* C5: reset() cancels the pending frame first, calls restoreSnapshot while
\* the snapshot still exists, then clearSnapshot, then the render callback
\* exactly once; every body state the snapshot holds for a body of a tracked
\* entity is back in place, and no snapshot is left.
C5_ResetStep ==
    Op(calls') = "reset" =>
        /\ Count(calls', "restoreSnapshot") = 1
        /\ Count(calls', "clearSnapshot") = 1
        /\ Count(calls', "render") = 1
        /\ Index(calls', "restoreSnapshot") < Index(calls', "clearSnapshot")
        /\ Index(calls', "clearSnapshot") < Index(calls', "render")
        /\ ArgOf(calls', "restoreSnapshot") = Flag(hasSnapshot(physics))
        /\ rafId # {} =>
              /\ Count(calls', "cancelAnimationFrame") = 1
              /\ Index(calls', "cancelAnimationFrame") < Index(calls', "restoreSnapshot")
              /\ ArgOf(calls', "cancelAnimationFrame") \in rafId
              /\ pending' \cap rafId = {}
        /\ \A c \in Captured(physics.snapshot) :
              (\E e \in Range(physics.objects) : c[1] \in Range(bodies(e, popped)))
                  => bodyPos'[c[1]] = c[2]
        /\ ~hasSnapshot(physics')

C5_ResetOrder == [][C5_ResetStep]_vars

\* reset() of a running loop that held a snapshot with body states.
C5_Witness ==
    /\ Op(calls) = "reset"
    /\ Count(calls, "cancelAnimationFrame") = 1
    /\ ArgOf(calls, "restoreSnapshot") = 1
    /\ stepped > maxDt
    /\ physics.objects # <<>>

\* C6: once pause(), reset() or dispose() has returned, no operation other
\* than play() steps the World, emits the frame tick or renders from a frame
\* callback.
C6_HaltedStep ==
    (halted /\ Op(calls') # "play") =>
        /\ Count(calls', "step") = 0
        /\ Count(calls', "emit:loop:frame") = 0
        /\ (Op(calls') = "_frame" => Count(calls', "render") = 0)

C6_NoZombieFrame == [][C6_HaltedStep]_vars

\* pause() cancelled the frame that was scheduled, after frames had run.
C6_Witness ==
    /\ halted
    /\ Op(calls) = "pause"
    /\ Count(calls, "cancelAnimationFrame") = 1
    /\ pending = {}
    /\ stepped > 0

\* Every dt passed to step is in (0, maxDt].
DtInRange ==
    \A i \in 1..Len(calls) : calls[i].op = "step" => (0 < calls[i].arg /\ calls[i].arg <= maxDt)

C8_FirstFrameStep ==
    (fresh \in {"start", "resume"} /\ state = RUNNING /\ Op(calls') = "_frame") =>
        /\ Count(calls', "step") = 1
        /\ ArgOf(calls', "step") = NominalDt

C8_FirstFrameNominal == [][C8_FirstFrameStep]_vars

\* The first frame after a resume, with a timestamp later than the frames
\* before the pause.
C8_Witness ==
    /\ fresh = "after-resume"
    /\ Op(calls) = "_frame"
    /\ calls[1].arg = MaxTick * TimeStep
    /\ ArgOf(calls, "step") = NominalDt
    /\ elapsed > NominalDt

\* C9: the state is stopped, running or paused, the speed is 1 or 2, and the
\* elapsed time is 0 whenever the state is stopped.
C9_LoopInvariant ==
    /\ state \in LoopState
    /\ speed \in {1, 2}
    /\ state = STOPPED => elapsed = 0

\* C10: every body of the solver's world other than the walls is a body of
\* exactly one tracked entity, and the lookup holds exactly the bodies of the
\* tracked entities.
C10_BodiesOwned ==
    /\ \A b \in physics.world \ Walls :
          Cardinality({e \in Range(physics.objects) : b \in Range(bodies(e, popped))}) = 1
    /\ DOMAIN physics.bodyToObject =
          UNION {Range(bodies(e, popped)) : e \in Range(physics.objects)}

\* The pairs of the step log whose first body is owned by x and second by y.
Touches(log, p, x, y) ==
    {i \in 1..Len(log) :
        /\ log[i].op = "pair"
        /\ log[i].arg \in DOMAIN p.bodyToObject
        /\ log[i].first \in DOMAIN p.bodyToObject
        /\ p.bodyToObject[log[i].arg] = x
        /\ p.bodyToObject[log[i].first] = y}

\* The onCollision calls of the step log on x with y as the other entity.
HookCalls(log, x, y) ==
    {i \in 1..Len(log) : log[i].op = "onCollision" /\ log[i].arg = x /\ log[i].first = y}

\* No hook is called for a reported pair with a boundary wall.
WallPairsSilent(log) ==
    \A i \in 1..Len(log) :
        (log[i].op = "pair" /\ (log[i].arg \in Walls \/ log[i].first \in Walls)) =>
            (i = Len(log) \/ log[i + 1].op \notin {"onCollision", "emit:physics:collision"})

\* C11, as claimed: when bodies of two tracked entities come into contact in a
\* step, each entity's onCollision is called exactly once in that step with
\* the other entity, however many bodies they own; a contact with a boundary
\* wall calls no hook.
C11_OncePerStep ==
    Op(calls) = "step" =>
        /\ \A x, y \in Range(physics.objects) :
              (x # y /\ Touches(calls, physics, x, y) # {}) =>
                  /\ Cardinality(HookCalls(calls, x, y)) = 1
                  /\ Cardinality(HookCalls(calls, y, x)) = 1
        /\ WallPairsSilent(calls)

\* C11, amended: each entity's onCollision is called exactly once per reported
\* pair of bodies with the owner of the other body, so two entities that touch
\* through several pairs of bodies get one call per pair; a contact with a
\* boundary wall calls no hook.
C11_OncePerPair ==
    Op(calls) = "step" =>
        /\ \A x, y \in Entities :
              Cardinality(HookCalls(calls, x, y)) =
                  Cardinality(Touches(calls, physics, x, y)) + Cardinality(Touches(calls, physics, y, x))
        /\ WallPairsSilent(calls)

\* A step in which a balloon touched both bodies of a candle.
C11_Witness ==
    /\ Op(calls) = "step"
    /\ \E x, y \in Range(physics.objects) :
          /\ x # y
          /\ Cardinality(Touches(calls, physics, x, y)) = 2
          /\ Cardinality(HookCalls(calls, x, y)) = 2
          /\ Cardinality(HookCalls(calls, y, x)) = 2

\* C12: in every step each tracked entity's beforeStep hook is called exactly
\* once, before the solver is advanced, and the hook's parameter is the World.
C12_BeforeStepHooks ==
    Op(calls) = "step" =>
        /\ Count(calls, "Engine.update") = 1
        /\ \A e \in Range(physics.objects) :
              LET hs == {i \in 1..Len(calls) : calls[i].op = "onBeforeUpdate" /\ calls[i].arg = e}
              IN /\ Cardinality(hs) = 1
                 /\ \A i \in hs : i < Index(calls, "Engine.update") /\ calls[i].first = "this"

\* C13: after clear() no entity is tracked, the lookup is empty and the
\* solver's world holds the four boundary walls and nothing else.
C13_ClearLeavesWalls ==
    Op(calls) = "clear" =>
        /\ physics.objects = <<>>
        /\ DOMAIN physics.bodyToObject = {}
        /\ physics.world = Walls

\* The body states takeSnapshot captures in the current state.
Capture(p, pop, pos) ==
    UNION {{<<b, pos[b]>> : b \in Range(bodies(e, pop))} : e \in Range(p.objects)}

\* C14: hasSnapshot() is true exactly when takeSnapshot has been called with
\* no clearSnapshot since: it is false after construction, takeSnapshot makes
\* it true, clearSnapshot makes it false and no other operation (restoreSnapshot
\* included) changes it or the buffer; a takeSnapshot, also a second one,
\* leaves in the buffer the body states at the time of that call.
C14_SnapshotStep ==
    /\ Op(calls') = "takeSnapshot" =>
          /\ hasSnapshot(physics')
          /\ Len(physics'.snapshot.entries) = Len(physics.objects)
          /\ Captured(physics'.snapshot) = Capture(physics, popped, bodyPos)
    /\ Op(calls') = "clearSnapshot" => ~hasSnapshot(physics')
    /\ Op(calls') \notin {"takeSnapshot", "clearSnapshot"} => physics'.snapshot = physics.snapshot

C14_OneSnapshot ==
    /\ (Op(calls) = "constructor" => ~hasSnapshot(physics))
    /\ [][C14_SnapshotStep]_vars

\* A second takeSnapshot, after a step that moved a body.
C14_Witness ==
    /\ Op(calls) = "takeSnapshot"
    /\ calls[1].arg = 1
    /\ \E c \in Captured(physics.snapshot) : c[2] > 0

\* The tracked entities are the ones the snapshot was taken of, in order.
SameEntities(p) ==
    /\ Len(p.snapshot.entries) = Len(p.objects)
    /\ \A i \in 1..Len(p.objects) : p.snapshot.entries[i].serialized = serialize(p.objects[i])

\* C15: with the tracked entities unchanged since takeSnapshot, a
\* restoreSnapshot that follows a restoreSnapshot changes no body state, and
\* after either restore every captured body state is back in place.
C15_RestoreStep ==
    (Op(calls') = "restoreSnapshot" /\ hasSnapshot(physics) /\ SameEntities(physics)) =>
        /\ Op(calls) = "restoreSnapshot" => bodyPos' = bodyPos
        /\ \A c \in Captured(physics.snapshot) : bodyPos'[c[1]] = c[2]

C15_RestoreIdempotent == [][C15_RestoreStep]_vars

\* The entity a snapshot entry was taken of: the owner of its body ids.
EntryOf(entry, e) ==
    /\ entry.bodyStates # <<>>
    /\ \A j \in 1..Len(entry.bodyStates) : entry.bodyStates[j].id \in Range(constructedBodies(e))

\* C16: restoreSnapshot returns every captured body state of an entity that
\* was tracked at snapshot time and still is, when the entity still owns that
\* body, whatever was added or removed in between.
C16_RestoreStep ==
    (Op(calls') = "restoreSnapshot" /\ hasSnapshot(physics)) =>
        \A i \in 1..Len(physics.snapshot.entries), e \in Range(physics.objects) :
            EntryOf(physics.snapshot.entries[i], e) =>
                \A j \in 1..Len(physics.snapshot.entries[i].bodyStates) :
                    LET bs == physics.snapshot.entries[i].bodyStates[j]
                    IN bs.id \in Range(bodies(e, popped)) => bodyPos'[bs.id] = bs.pos

C16_RestoreBestEffort == [][C16_RestoreStep]_vars

\* C17: create and deserialize of a name that is not registered throw, return
\* no object and leave the registry as it was; of a registered name they
\* return an object built by the class registered under that name, which is
\* the one of the latest register call for the name: register sets the entry
\* of its name and nothing else changes the registry.
C17_CatalogStep ==
    /\ Op(calls') = "register" =>
          /\ DOMAIN registry' = DOMAIN registry \cup {calls'[1].type}
          /\ registry'[calls'[1].type] = calls'[1].class
          /\ \A t \in DOMAIN registry : t # calls'[1].type => registry'[t] = registry[t]
    /\ Op(calls') \in {"create", "deserialize"} =>
          /\ registry' = registry
          /\ IF calls'[1].type \in DOMAIN registry
             THEN /\ ~made'.thrown
                  /\ Len(made'.value) = 1
                  /\ made'.value[1].class = registry[calls'[1].type]
             ELSE /\ made'.thrown
                  /\ made'.value = <<>>
    /\ Op(calls') \notin {"register", "create", "deserialize"} => registry' = registry

C17_UnknownKindThrows == [][C17_CatalogStep]_vars

\* An object created under a name whose registration was overwritten.
C17_Witness ==
    /\ Op(calls) = "create"
    /\ calls[1].type = "ball"
    /\ ~made.thrown
    /\ made.value[1].class = "Baseball"
    /\ made.value[1].id > 1

\* C18: the object deserialize returns for the serialization of an object has
\* the same kind, x, y, angle, fixed flag and kind-specific options.
C18_RoundTrip ==
    Op(calls) = "roundTrip" =>
        /\ ~made.thrown
        /\ Len(made.value) = 1
        /\ made.value[1].type = subject[1].type
        /\ made.value[1].x = subject[1].x
        /\ made.value[1].y = subject[1].y
        /\ made.value[1].angle = subject[1].angle
        /\ made.value[1].isFixed = subject[1].isFixed
        /\ made.value[1].variant = subject[1].variant

\* The object a record describes: its kind, pose and kind-specific options,
\* fixed.
Described(objData) ==
    create(registerAllObjects, objData.type, 0, objData.x, objData.y,
           [objData.options EXCEPT !.angle = objData.angle, !.isFixed = {TRUE}]).value[1]

\* C19: after a level load the board holds, in order, one fixed object per
\* record of a registered kind, with the record's kind, x, y, angle and
\* kind-specific options; the records of an unknown kind are skipped.
C19_LevelLoadLossless ==
    Op(calls) \in {"level:loaded", "_applyLoadedLevel"} =>
        LET known == Known(registry, levelData)
        IN /\ Len(placedObjects) = Len(known)
           /\ \A k \in 1..Len(known) :
                 /\ placedObjects[k].type = Described(known[k]).type
                 /\ placedObjects[k].x = Described(known[k]).x
                 /\ placedObjects[k].y = Described(known[k]).y
                 /\ placedObjects[k].angle = Described(known[k]).angle
                 /\ placedObjects[k].variant = Described(known[k]).variant
                 /\ placedObjects[k].isFixed

\* The fixed objects of the board, in order, with their poses.
FixedObjects(objects) == SelectSeq(objects, LAMBDA o : o.isFixed)

\* C20: no drag-and-drop input selects a fixed object, starts a drag of one,
\* changes the position or the angle of one or removes one from the board.
C20_FixedStep ==
    /\ \A r \in selectedObject' \cup dragObject' : ~r.isFixed
    /\ FixedObjects(placedObjects') = FixedObjects(placedObjects)

C20_FixedImmutable == [][C20_FixedStep]_vars

\* A click on a fixed object while a placed object was selected: the
\* selection is dropped, and the fixed objects are where the level put them.
C20_Witness ==
    /\ Op(calls) = "mousedown"
    /\ enabled
    /\ \E o \in getObjectAtPoint(calls[1].arg, 0, placedObjects) : o.isFixed
    /\ Count(calls, "emit:object:selected") = 1
    /\ selectedObject = {}
    /\ \E i \in 1..Len(placedObjects) : ~placedObjects[i].isFixed /\ placedObjects[i].angle # 0
    /\ FixedObjects(placedObjects) = createFixed(registry, levelData, 1)

\* C21: the ids are integers handed out by a strictly increasing counter, no
\* two objects ever constructed share an id, and the id of an object is the
\* one its constructor gave it.
C21_EntityIdentity ==
    /\ \A i \in 1..Len(everMade) :
          /\ everMade[i].id = NumberId(everMade[i].made)
          /\ everMade[i].made < nextId
    /\ \A i, j \in 1..Len(everMade) :
          i < j => (everMade[i].made < everMade[j].made /\ everMade[i].id # everMade[j].id)

\* The balloons that have popped.
Popped(pop) == {e \in Entities : KindOf(e) = "balloon" /\ pop[e]}

\* C22: once a balloon has popped, objectAtPoint never returns it, no body of
\* it is in the solver's world, and a step calls no onCollision on it or with
\* it as the other entity.
C22_PoppedStep ==
    Op(calls') = "step" =>
        \A e \in Popped(popped), i \in 1..Len(calls') :
            calls'[i].op = "onCollision" => (calls'[i].arg # e /\ calls'[i].first # e)

C22_PoppedInvisible ==
    /\ [](\A e \in Popped(popped) :
            /\ \A point \in 0..MaxPos : e \notin objectAtPoint(physics, bodyPos, point)
            /\ Range(constructedBodies(e)) \cap physics.world = {})
    /\ [][C22_PoppedStep]_vars

\* The last operation was a frame callback that a hook's exception left.
Threw(log) == Op(log) = "_frame" /\ Count(log, "throw") > 0

\* The loop is running and no frame callback is scheduled.
Stalled == state = RUNNING /\ pending = {}

\* A frame in which a hook raises adds nothing to the elapsed time, renders
\* nothing, emits no tick, schedules no frame and leaves the loop running
\* with no frame scheduled.
ThrowingFrame ==
    Threw(calls') =>
        /\ calls'[Len(calls')].op = "throw"
        /\ elapsed' = elapsed
        /\ Count(calls', "render") = 0
        /\ Count(calls', "emit:loop:frame") = 0
        /\ Count(calls', "requestAnimationFrame") = 0
        /\ state' = RUNNING
        /\ pending' = {}

\* C23, as claimed: a hook that raises in a frame is not caught; the frame
\* adds nothing to the elapsed time, renders nothing, emits no tick and
\* schedules no frame, and the loop then stays running with no frame
\* scheduled, stepping nothing, under every operation but pause() and reset().
C23_HaltedStep ==
    /\ ThrowingFrame
    /\ (Stalled /\ Op(calls') \notin {"pause", "reset"}) =>
          (Stalled' /\ Count(calls', "step") = 0)

C23_HaltedUntilPauseOrReset == [][C23_HaltedStep]_vars

\* C23, amended: the same, and the loop stays running with no frame scheduled
\* under every operation but pause(), reset() and dispose().
C23_StalledStep ==
    /\ ThrowingFrame
    /\ (Stalled /\ Op(calls') \notin {"pause", "reset", "dispose"}) =>
          (Stalled' /\ Count(calls', "step") = 0)

C23_HaltedUntilStopped == [][C23_StalledStep]_vars

\* play() on the loop an onCollision hook halted, after earlier frames: it is
\* still running with no frame scheduled.
C23_Witness ==
    /\ Op(calls) = "play"
    /\ Stalled
    /\ rafId # {}
    /\ stepped > elapsed
    /\ elapsed > 0
    /\ \E e \in Entities : popped[e]

\* Level data that passes validation: it has an id, a name, a goal with a
\* type, an array of fixedObjects and an object of availableParts.
Valid(data) ==
    /\ data.id # {}
    /\ data.name # {}
    /\ data.goal # {} /\ The(data.goal).type # {}
    /\ data.fixedObjects = {"array"}
    /\ data.availableParts = {"object"}

\* C24: the current level is never level data that fails validation, and no
\* such data is emitted with level:loaded.
C24_InvalidLevelRejected ==
    /\ \A data \in currentLevel : Valid(data)
    /\ \A i \in 1..Len(calls) : calls[i].op = "emit:level:loaded" => Valid(calls[i].data)

\* C25: after a resize the World's width and height are the ones of the
\* canvas and its four walls are placed for that size.
C25_ResizeFollowed ==
    Op(calls) = "resize" =>
        /\ physics.width = canvas.width
        /\ physics.height = canvas.height
        /\ physics.boundaries = _addBoundaries(canvas.width, canvas.height)

\* C26: after every step of two Worlds populated from the same record with
\* every option given, the balloons of both had the same force applied and
\* have the same colour, popped flag and position.
C26_StepDeterminism ==
    Op(calls) = "stepTwins" =>
        /\ twins[1].force = twins[2].force
        /\ twins[1].colorIndex = twins[2].colorIndex
        /\ twins[1].popped = twins[2].popped
        /\ twins[1].x = twins[2].x
        /\ twins[1].y = twins[2].y

\* The kinds and poses of the objects of a board, in order.
Poses(objects) ==
    [i \in 1..Len(objects) |->
        [type |-> objects[i].type, x |-> objects[i].x, y |-> objects[i].y,
         angle |-> objects[i].angle, isFixed |-> objects[i].isFixed]]

\* C27: Play leaves the board as it is, and so does every operation while
\* playing or paused, Reset included: after Play and Reset the board holds the
\* objects it held before Play, placed and fixed, with their kinds and poses.
C27_CycleStep ==
    (Op(calls') = "controls:play" \/ mode \in {"PLAYING", "PAUSED"}) =>
        Poses(placedObjects') = Poses(placedObjects)

C27_PlayResetCycle == [][C27_CycleStep]_vars

\* The listener dispatched a contact between x and y in the step.
Dispatched(log, x, y) ==
    /\ log[1].op = "collisionStart"
    /\ {log[1].arg, log[1].first} = {x, y}

\* C28: when a contact between a rope and scissors is dispatched, the rope is
\* severed afterwards, and the rope-severed notification was emitted once if
\* the rope was whole before.
C28_ScissorsStep ==
    \A r, c \in 1..Len(PartTypes) :
        (PartTypes[r] = "rope" /\ PartTypes[c] = "scissors" /\ Dispatched(calls', r, c)) =>
            /\ parts'[r].severed
            /\ ~parts[r].severed => parts'[r].emitted = parts[r].emitted + 1

C28_ScissorsSeverRope == [][C28_ScissorsStep]_vars

\* A hazard for a balloon: scissors or a candle.
Hazard(o) == PartTypes[o] = "scissors" \/ PartTypes[o] = "candle"

\* C30: a balloon that is not popped pops in a step exactly when the step
\* dispatches a contact of it with scissors or a candle; a popped balloon stays
\* popped; and the balloon-popped notification was emitted once for a popped
\* balloon and never for one that is not popped, whatever contacts follow.
C30_PopStep ==
    \A b \in 1..Len(PartTypes) : PartTypes[b] = "balloon" =>
        /\ parts[b].popped => parts'[b].popped
        /\ ~parts[b].popped =>
              (parts'[b].popped <=> \E o \in 1..Len(PartTypes) : Hazard(o) /\ Dispatched(calls', b, o))

C30_EmittedOnce ==
    \A b \in 1..Len(PartTypes) : PartTypes[b] = "balloon" =>
        parts[b].emitted = Flag(parts[b].popped)

C30_BalloonPopsOnce == [](C30_EmittedOnce) /\ [][C30_PopStep]_vars

\* A popped balloon after a further contact with a hazard, which emitted
\* nothing.
C30_Witness ==
    \E b, o \in 1..Len(PartTypes) :
        /\ PartTypes[b] = "balloon" /\ Hazard(o)
        /\ Dispatched(calls, b, o)
        /\ Len(calls) = 2
        /\ parts[b].popped /\ parts[b].emitted = 1

\* C29: after setPosition(x, y) the position fields are x and y and every
\* body the object owns is where the constructor would build it for x and y;
\* after setAngle(a) the angle field is a and every body the object owns is
\* at angle a.
C29_PoseStep ==
    LET e == edited'
        home == builtBodies(e.type, e.x, e.y, e.angle)
    IN /\ calls'[1].op = "setPosition" =>
             /\ e.x = calls'[1].arg /\ e.y = calls'[1].first
             /\ \A i \in 1..Len(ownedBodies(e)) :
                    ownedBodies(e)[i].x = home[i].x /\ ownedBodies(e)[i].y = home[i].y
       /\ calls'[1].op = "setAngle" =>
             /\ e.angle = calls'[1].arg
             /\ \A i \in 1..Len(ownedBodies(e)) : ownedBodies(e)[i].angle = e.angle

C29_PoseAgrees == [][C29_PoseStep]_vars

C32_SpringRanges ==
    /\ spring.compression \in 0..100
    /\ spring.cooldown \in 0..30
    /\ spring.triggered => (spring.cooldown = 0 /\ spring.compression > 0)

C32_SpringStep ==
    /\ calls'[1].op = "collisionStart" =>
          IF calls'[1].body = "platform" /\ ~spring.triggered /\ spring.cooldown = 0
          THEN spring'.triggered /\ spring'.compression = 100 /\ spring'.cooldown = 0
          ELSE spring' = spring
    /\ calls'[1].op = "step" =>
          /\ ~spring'.threw
          /\ spring'.launched <=> (spring.triggered /\ spring.since = 12)
          /\ spring'.launched => (~spring'.triggered /\ spring'.cooldown = 30)
          /\ (spring.cooldown > 0) => (spring'.cooldown = spring.cooldown - 1 /\ ~spring'.triggered)

C32_SpringTrigger == [](C32_SpringRanges) /\ [][C32_SpringStep]_vars

\* C33: after the listener dispatched a contact between two gears, the two
\* have the same magnitude of angular speed and opposite directions.
C33_MeshStep ==
    \A a, b \in 1..GearCount :
        (a # b /\ Dispatched(calls', a, b)) =>
            /\ abs(gears'[a]) = abs(gears'[b])
            /\ sign(gears'[a]) = -sign(gears'[b])
            /\ gears'[a] # 0

C34_Allotment(type) == inventory[type] + placedCount(placedObjects, type)

C34_ConservationStep ==
    \A type \in DOMAIN inventory :
        /\ C34_Allotment(type)' = C34_Allotment(type)
        /\ inventory'[type] >= 0
        /\ placedCount(placedObjects', type) > placedCount(placedObjects, type) => inventory[type] > 0

C34_InventoryConserved == [][C34_ConservationStep]_vars

\* C35: after any sequence of play, pause and reset controls at most one
\* chain of the renderer's own animation loop is active, and none is active
\* while the run-loop is running.
C35_RenderLoopExclusive ==
    /\ ui.renderer.loops <= 1
    /\ state = RUNNING => ui.renderer.loops = 0

\* C36: the mode is PLAYING exactly when the run-loop is running, PAUSED
\* exactly when it is paused, and in every other mode the run-loop is idle;
\* the reset control, in a session whose play was pressed in SANDBOX, leaves
\* the mode SANDBOX.
C36_ModeMatchesLoop ==
    /\ mode = "PLAYING" <=> state = RUNNING
    /\ mode = "PAUSED" <=> state = PAUSED
    /\ mode \notin {"PLAYING", "PAUSED"} => state = STOPPED

C36_ResetStep ==
    (/\ mode \in {"PLAYING", "PAUSED"}
     /\ ui.origin = "SANDBOX"
     /\ calls'[1] = Call("reset", 0)) => mode' = "SANDBOX"

C36_ModeConsistent == [](C36_ModeMatchesLoop) /\ [][C36_ResetStep]_vars

\* C39: after any number of presses of the speed button the speed the play
\* controls show is the run-loop's multiplier and the solver's time scale.
C39_SpeedAgrees ==
    /\ ui.speed = speed
    /\ ui.speed = physics.timeScale
\* C40, as claimed: after every call and every frame a frame callback is
\* scheduled exactly when the run-loop is running, and at most one is
\* scheduled.
C40_PendingIffRunning ==
    /\ pending # {} <=> state = RUNNING
    /\ Cardinality(pending) <= 1

\* C40, amended: a frame callback is scheduled only when the run-loop is
\* running and at most one is scheduled, so play/pause/play never leaves two
\* chains of frames; a running loop has a frame scheduled unless a hook
\* raised in a frame since it last was paused, reset or disposed.
C40_AtMostOne ==
    /\ pending # {} => state = RUNNING
    /\ Cardinality(pending) <= 1

C40_StallStep == Stalled' => (Stalled \/ Threw(calls'))

C40_OneFrameChain == [](C40_AtMostOne) /\ [][C40_StallStep]_vars

\* play(), frames, pause() and play() again: the loop resumed with one
\* frame scheduled.
C40_Witness ==
    /\ fresh = "resume"
    /\ state = RUNNING
    /\ elapsed > 0
    /\ Cardinality(pending) = 1
\* C38: emit(event) invokes every listener subscribed to the event exactly
\* once, in the order of subscription, also after a listener that throws;
\* every exception is logged and none leaves emit; the listeners of the
\* other events are not invoked and stay subscribed.
C38_EmitStep ==
    calls'[1].op = "emit" =>
        LET event == calls'[1].event
        IN /\ bus'.invoked = bus.listeners[event]
           /\ ~bus'.propagated
           /\ bus'.errors = Cardinality({i \in 1..Len(bus.listeners[event]) :
                                            Throws(bus.listeners[event][i].callback)})
           /\ \A other \in Events \ {event} : bus'.listeners[other] = bus.listeners[other]
           /\ bus'.listeners[event] = SelectSeq(bus.listeners[event], LAMBDA l : l.wrapper = 0)

C38_EmitIsolated == [][C38_EmitStep]_vars

\* An emit to three listeners, the first a once() wrapper, with a listener
\* that throws before the last one.
C38_Witness ==
    /\ calls[1].op = "emit"
    /\ Len(bus.invoked) = 3
    /\ bus.invoked[1].wrapper > 0
    /\ \E i \in 1..2 : Throws(bus.invoked[i].callback)
    /\ ~Throws(bus.invoked[3].callback)
    /\ bus.errors >= 1
\* C37: the World never tracks an entity whose dispose() has been called:
\* removeObject, clear, the drag-and-drop delete and the reset of a session
\* dispose an entity only once the World no longer holds it and its bodies.
C37_NoDisposedTracked ==
    \A e \in Entities :
        disposed[e] =>
            /\ e \notin Range(physics.objects)
            /\ \A b \in Range(constructedBodies(e)) : b \notin DOMAIN physics.bodyToObject
====
